---- MODULE Spec2Model ----
(***************************************************************************)
(* A model of novel-bot's conversation controller: AgentLoop (agent/loop.py) *)
(* and SyncRunner (agent/sync_runner.py) driving the Completion Client     *)
(* (agent/provider.py) and the Tool Registry (agent/tools.py) over the     *)
(* Persistent Store (agent/memory.py).                                     *)
(*                                                                         *)
(* Python dicts are records that carry exactly the dict's keys; Python     *)
(* strings are TLA+ strings, and the substring tests of the code are       *)
(* computed on them.  The language model and the user are the environment: *)
(* every response and input is drawn from a small set.                     *)
(***************************************************************************)
EXTENDS Integers, Sequences, FiniteSets, TLC

VARIABLES
    clock,            \* wall clock, in the resolution of strftime("%Y%m%d_%H%M%S")
    sessions,         \* memory/sessions/: session id of the file name |-> file
    docs,             \* the workspace documents: path |-> text
    llm,              \* behaviour class of the language model of this run
    events,           \* turns so far in which the model did more than reply in plain text
    script,           \* what the model replies to the next calls of this turn
    proc,             \* the program running: "none", "agent" or "sync"
    pc,               \* the await / statement the program is at
    session_id,       \* self.session_id
    history,          \* self.history
    messages,         \* the local list `messages` of process_turn / _run_sync
    current_response, \* the response whose tool calls are being executed
    loop_count,       \* process_turn's loop_count
    tool_idx,         \* position of the for loop over current_response.tool_calls
    depth,            \* SyncRunner._process_turn's depth
    selected,         \* the file _load_session picked at construction
    executed,         \* ids of the calls ToolRegistry.execute was invoked for, this round
    calls,            \* the Completion Client calls of this turn, by call site
    turn_start,       \* Len(history) when the current turn began
    error             \* the error process_turn printed in this turn, "" if none

vars == << clock, sessions, docs, llm, events, script, proc, pc, session_id, history,
           messages, current_response, loop_count, tool_idx, depth, selected,
           executed, calls, turn_start, error >>

-----------------------------------------------------------------------------
(* Bounds of the model.                                                    *)

\* processes started in one behaviour (each start advances the clock)
MaxClock == 2
\* the user enters a new message only while history is shorter than this
MaxHistory == 12
\* turns (and in-loop sync commands) in which the model does more than reply
\* in plain text
MaxEvents == 1
\* SyncRunner takes a follow-up command only while its history is shorter than this
MaxSyncHistory == 4

(* Program constants.                                                      *)
MAX_CONTEXT_MESSAGES == 10
MAX_LOOPS == 10
ErrorWindow == 10
ErrorThreshold == 2
MaxDepth == 10
max_retries == 3
retry_delay == 2

-----------------------------------------------------------------------------
(* Python helpers.                                                         *)

\* dict.get(k, d)
Get(m, k, d) == IF k \in DOMAIN m THEN m[k] ELSE d

\* s[-n:]
LastN(s, n) == IF Len(s) <= n THEN s ELSE SubSeq(s, Len(s) - n + 1, Len(s))

\* s.startswith(p)
StartsWith(s, p) == Len(s) >= Len(p) /\ SubSeq(s, 1, Len(p)) = p

\* p in s
Contains(s, p) ==
    \E i \in 1..(Len(s) - Len(p) + 1) : SubSeq(s, i, i + Len(p) - 1) = p

\* ", ".join(names)
RECURSIVE Join(_)
Join(names) ==
    IF names = << >> THEN ""
    ELSE IF Len(names) = 1 THEN names[1]
    ELSE names[1] \o ", " \o Join(Tail(names))

IsPrefix(s, t) == Len(s) <= Len(t) /\ SubSeq(t, 1, Len(s)) = s

Range(s) == { s[i] : i \in 1..Len(s) }

-----------------------------------------------------------------------------
(* The Persistent Store (agent/memory.py): docs maps a path to its text.   *)

\* MemoryStore.read
Read(d, filename) == IF filename \in DOMAIN d THEN d[filename] ELSE ""

\* path.write_text(content)
PutDoc(d, filename, content) ==
    [f \in DOMAIN d \cup {filename} |-> IF f = filename THEN content ELSE d[f]]

\* c.isalnum() or c in (' ', '-', '_'), for the characters the model's titles use
SafeChars ==
    { "A", "B", "C", "D", "E", "F", "G", "H", "I", "J", "K", "L", "M", "N", "O",
      "P", "Q", "R", "S", "T", "U", "V", "W", "X", "Y", "Z",
      "a", "b", "c", "d", "e", "f", "g", "h", "i", "j", "k", "l", "m", "n", "o",
      "p", "q", "r", "s", "t", "u", "v", "w", "x", "y", "z",
      "0", "1", "2", "3", "4", "5", "6", "7", "8", "9", " ", "-", "_" }

\* what one character of the title contributes to the file name
SafeChar(c) == IF c \notin SafeChars THEN "" ELSE IF c = " " THEN "_" ELSE c

\* "".join([c for c in chapter_title if ...]).strip().replace(" ", "_"); the
\* model's titles neither start nor end with a blank, so strip() keeps them
RECURSIVE SafeName(_)
SafeName(title) ==
    IF Len(title) <= 1 THEN SafeChar(title)
    ELSE SafeName(SubSeq(title, 1, Len(title) \div 2))
         \o SafeName(SubSeq(title, Len(title) \div 2 + 1, Len(title)))

ChapterMemoryPath(title) == "memory/chapters/" \o SafeName(title) \o ".md"

GlobalMemoryFile == "memory/MEMORY.md"

-----------------------------------------------------------------------------
(* The Tool Registry (agent/tools.py).                                     *)
(* The raw argument payload of a tool call (tool_call.function.arguments)  *)
(* is [form, args]: form "json" is text json.loads accepts as an object,   *)
(* and args the dict it yields (the keys whose value is null are listed in *)
(* the field nulls, when there are any); form "none" is a payload of None; *)
(* form "array" is the text of a JSON list and form "scalar" the text of a *)
(* JSON number; form "malformed" is text that neither json.loads, nor the  *)
(* repair pass, nor the fallback extractor turns into a dict; form "text"  *)
(* is a payload given by its characters (field text), which                *)
(* parse_arguments has to parse.                                           *)

Json(args) == [form |-> "json", args |-> args]
JsonWithNulls(args, nulls) == [form |-> "json", args |-> args, nulls |-> nulls]
NoneArgs == [form |-> "none", args |-> << >>]
\* a payload that is not the text of a JSON object
NonObject(form) == [form |-> form, args |-> << >>]

\* the keys of the parsed dict whose value is None
NullKeys(raw) == IF "nulls" \in DOMAIN raw THEN raw.nulls ELSE {}

NoParams == << >>

\* the parameters without default of the registered callables (inspect.signature)
RequiredParams(name) ==
    CASE name = "read_file" -> << "filename" >>
      [] name = "write_file" -> << "filename", "content" >>
      [] name = "list_files" -> NoParams
      [] name = "append_file" -> << "filename", "content" >>
      [] name = "memorize_chapter_event" -> << "chapter_title", "memory_summary" >>
      [] name = "memorize_important_fact" -> << "content" >>
      [] name = "get_writing_progress" -> NoParams

ToolNames ==
    { "read_file", "write_file", "list_files", "append_file",
      "memorize_chapter_event", "memorize_important_fact", "get_writing_progress" }

\* the parameters of the registered callables (none of them is **kwargs)
Params(name) ==
    IF name = "list_files" THEN { "pattern" } ELSE Range(RequiredParams(name))

\* the "required" list of the schema published for the tool
DescriptorRequired(name) ==
    CASE name = "read_file" -> { "filename" }
      [] name = "write_file" -> { "filename", "content" }
      [] name = "list_files" -> { "pattern" }
      [] name = "append_file" -> { "filename", "content" }
      [] name = "memorize_chapter_event" -> { "chapter_title", "memory_summary" }
      [] name = "memorize_important_fact" -> { "content" }
      [] name = "get_writing_progress" -> {}

\* the same list, when an empty string counts as a value
MissingUnlessEmpty(name, args, nulls) ==
    SelectSeq(RequiredParams(name), LAMBDA p : p \notin DOMAIN args \/ p \in nulls)

\* [p for p in required_params if p not in args or args[p] is None or args[p] == ""]
Missing(name, args, nulls) ==
    SelectSeq(RequiredParams(name),
              LAMBDA p : \/ p \notin DOMAIN args \cup nulls
                         \/ p \in nulls
                         \/ (p \in DOMAIN args /\ args[p] = ""))

ErrInvalidArguments ==
    "Error: Invalid tool arguments format. Please try again with proper JSON."

ErrWriteFileNoContent ==
    "Error: write_file tool was called without the 'content' parameter. You MUST provide the complete chapter text in the 'content' parameter. Please call write_file again with both 'filename' and 'content' parameters."

ErrWriteFileNoFilename ==
    "Error: write_file tool was called without the 'filename' parameter. Please provide the file path (e.g., 'drafts/chapter_21.md')."

ErrMissing(missing) == "Error: Missing required parameters: " \o Join(missing)

ErrToolNotFound(name) == "Error: Tool " \o name \o " not found."

\* s[i] is a digit
IsDigit(s, i) ==
    i <= Len(s) /\ \E k \in 1..10 : SubSeq("0123456789", k, k) = SubSeq(s, i, i)

\* int(s) for a string of digits
RECURSIVE ParseInt(_)
ParseInt(s) ==
    IF Len(s) = 0 THEN 0
    ELSE 10 * ParseInt(SubSeq(s, 1, Len(s) - 1))
         + (CHOOSE k \in 1..10 : SubSeq("0123456789", k, k) = SubSeq(s, Len(s), Len(s))) - 1

\* the names of the files dir.glob(pattern) yields, for the patterns
\* "chapter_*.md" (prefix "chapter_") and "*.md" (prefix "")
Glob(d, dir, prefix) ==
    { SubSeq(q, Len(dir) + 1, Len(q)) :
        q \in { f \in DOMAIN d :
                  /\ StartsWith(f, dir \o prefix)
                  /\ Len(f) >= Len(dir) + 3
                  /\ SubSeq(f, Len(f) - 2, Len(f)) = ".md"
                  /\ ~Contains(SubSeq(f, Len(dir) + 1, Len(f)), "/") } }

\* max(nums) if nums else 0
MaxOr0(nums) == IF nums = {} THEN 0 ELSE CHOOSE n \in nums : \A k \in nums : k <= n

\* f.stem.replace("chapter_", ""), from the stem s of a draft's name
RECURSIVE StemRest(_)
StemRest(s) ==
    IF s = "" THEN ""
    ELSE IF StartsWith(s, "chapter_") THEN StemRest(SubSeq(s, 9, Len(s)))
    ELSE SubSeq(s, 1, 1) \o StemRest(SubSeq(s, 2, Len(s)))

\* get_writing_progress: latest_chapter and total_chapters, over the files
\* of drafts/chapter_*.md whose stem without "chapter_" is all digits
ProgressCounts(d) ==
    LET rest(name) == StemRest(SubSeq(name, 1, Len(name) - 3))
        chapter_files == { f \in Glob(d, "drafts/", "chapter_") :
                             /\ rest(f) # ""
                             /\ \A i \in 1..Len(rest(f)) : IsDigit(rest(f), i) }
    IN  [total_chapters |-> Cardinality(chapter_files),
         latest_chapter |-> MaxOr0({ ParseInt(rest(f)) : f \in chapter_files })]

\* the report of get_writing_progress, up to the count of chapters (the
\* counts of memories, the summary status and the list of recent drafts
\* follow in the code)
WritingProgress(d) ==
    "## Current Writing Progress\n\n- **Latest Chapter**: Chapter "
        \o ToString(ProgressCounts(d).latest_chapter)
        \o "\n- **Total Chapters Written**: "
        \o ToString(ProgressCounts(d).total_chapters)

\* self.tools[name](**args): the result text and the documents afterwards
Invoke(name, args, d) ==
    CASE name = "read_file" ->
           [result |-> Read(d, args.filename), docs |-> d]
      [] name = "write_file" ->
           [result |-> "File " \o args.filename \o " written successfully.",
            docs |-> PutDoc(d, args.filename, args.content)]
      [] name = "append_file" ->
           [result |-> "Appended to " \o args.filename \o ".",
            docs |-> PutDoc(d, args.filename,
                            Read(d, args.filename) \o args.content \o "\n")]
      [] name = "memorize_chapter_event" ->
           [result |-> "Chapter memory for '" \o args.chapter_title
                          \o "' saved successfully.",
            docs |-> PutDoc(d, ChapterMemoryPath(args.chapter_title),
                            args.memory_summary)]
      [] name = "memorize_important_fact" ->
           [result |-> "Global memory updated.",
            docs |-> PutDoc(d, GlobalMemoryFile,
                            Read(d, GlobalMemoryFile) \o "\n- " \o args.content)]
      [] name = "list_files" ->
           [result |-> "[]", docs |-> d]
      [] name = "get_writing_progress" ->
           [result |-> WritingProgress(d), docs |-> d]

(* ToolRegistry.parse_arguments on the text of a payload (form "text",     *)
(* field text), character by character.  A text is a string over the      *)
(* characters of ArgumentTexts; json.loads is modelled for what these     *)
(* texts can hold: an object whose keys and values are strings, with the  *)
(* escapes \" \\ \/ \n \r \t, strict about control characters.            *)

RawText(text) == [form |-> "text", args |-> << >>, text |-> text]

\* s[i - 1] of the code (positions count from 1 here), "" past the end
Ch(s, i) == IF i >= 1 /\ i <= Len(s) THEN SubSeq(s, i, i) ELSE ""

Whitespace == { " ", "\t", "\r", "\n" }

\* the first position from j on that holds no whitespace (Len(s) + 1: none)
SkipWs(s, j) ==
    CHOOSE k \in j..(Len(s) + 1) :
        /\ k = Len(s) + 1 \/ Ch(s, k) \notin Whitespace
        /\ \A m \in j..(k - 1) : Ch(s, m) \in Whitespace

\* the decoder of json.loads as a scanner over s[lo..hi]: st is
\* [mode, key, cur, obj].  One character is one step; a longer stretch is
\* its first half, then its second half from the state the first ended in.
\* (Here and below a value that is read several times is bound by
\* { ... : v \in { value } }, so that it is computed once.)
RECURSIVE JsonScan(_, _, _, _)
JsonScan(s, lo, hi, st) ==
    IF lo > hi \/ st.mode = "fail"
    THEN st
    ELSE IF lo < hi
    THEN CHOOSE end \in UNION {
           { JsonScan(s, mid + 1, hi, left) : left \in { JsonScan(s, lo, mid, st) } } :
             mid \in { (lo + hi) \div 2 } } : TRUE
    ELSE LET c == Ch(s, lo)
             ws == c \in Whitespace
             to(m) == [st EXCEPT !.mode = m]
             unescaped == CASE c = "n" -> "\n"
                            [] c = "r" -> "\r"
                            [] c = "t" -> "\t"
                            [] OTHER -> c
         IN  CASE st.mode = "start" ->
                    IF ws THEN st ELSE IF c = "{" THEN to("first") ELSE to("fail")
               [] st.mode = "first" ->
                    IF ws THEN st
                    ELSE IF c = "}" THEN to("done")
                    ELSE IF c = "\"" THEN [st EXCEPT !.mode = "in_key", !.cur = ""]
                    ELSE to("fail")
               [] st.mode = "key" ->
                    IF ws THEN st
                    ELSE IF c = "\"" THEN [st EXCEPT !.mode = "in_key", !.cur = ""]
                    ELSE to("fail")
               [] st.mode = "in_key" ->
                    IF c = "\"" THEN [st EXCEPT !.mode = "colon", !.key = st.cur]
                    ELSE IF c = "\\" THEN to("esc_key")
                    ELSE IF c \in { "\n", "\r", "\t" } THEN to("fail")
                    ELSE [st EXCEPT !.cur = st.cur \o c]
               [] st.mode = "colon" ->
                    IF ws THEN st ELSE IF c = ":" THEN to("value") ELSE to("fail")
               [] st.mode = "value" ->
                    IF ws THEN st
                    ELSE IF c = "\"" THEN [st EXCEPT !.mode = "in_val", !.cur = ""]
                    ELSE to("fail")
               [] st.mode = "in_val" ->
                    IF c = "\""
                    THEN [st EXCEPT !.mode = "next",
                                    !.obj = [k \in DOMAIN st.obj \cup { st.key } |->
                                               IF k = st.key THEN st.cur ELSE st.obj[k]]]
                    ELSE IF c = "\\" THEN to("esc_val")
                    ELSE IF c \in { "\n", "\r", "\t" } THEN to("fail")
                    ELSE [st EXCEPT !.cur = st.cur \o c]
               [] st.mode \in { "esc_key", "esc_val" } ->
                    IF c \in { "\"", "\\", "/", "n", "r", "t" }
                    THEN [st EXCEPT !.mode = IF st.mode = "esc_key" THEN "in_key" ELSE "in_val",
                                    !.cur = st.cur \o unescaped]
                    ELSE to("fail")
               [] st.mode = "next" ->
                    IF ws THEN st
                    ELSE IF c = "," THEN to("key")
                    ELSE IF c = "}" THEN to("done")
                    ELSE to("fail")
               [] st.mode = "done" ->
                    IF ws THEN st ELSE to("fail")

\* json.loads(s): [ok, value]; ok is FALSE where it raises JSONDecodeError
JsonLoads(s) ==
    CHOOSE loaded \in
        { [ok |-> st.mode = "done", value |-> IF st.mode = "done" THEN st.obj ELSE << >>] :
            st \in { JsonScan(text, 1, Len(text),
                              [mode |-> "start", key |-> "", cur |-> "", obj |-> << >>]) :
                       text \in { s } } } : TRUE

\* the while loop of the repair pass over raw_args[lo..hi]: st is
\* [in_string, escape_next, cleaned]
RECURSIVE RepairScan(_, _, _, _)
RepairScan(raw_args, lo, hi, st) ==
    IF lo > hi
    THEN st
    ELSE IF lo < hi
    THEN CHOOSE end \in UNION {
           { RepairScan(raw_args, mid + 1, hi, left) :
               left \in { RepairScan(raw_args, lo, mid, st) } } :
             mid \in { (lo + hi) \div 2 } } : TRUE
    ELSE LET char == Ch(raw_args, lo)
             add(t) == [st EXCEPT !.cleaned = st.cleaned \o t]
         IN  IF st.escape_next
             THEN [add(char) EXCEPT !.escape_next = FALSE]
             ELSE IF char = "\\"
             THEN IF lo + 1 <= Len(raw_args)
                     /\ Ch(raw_args, lo + 1) \in { "\"", "\\", "n", "r", "t", "b", "f" }
                  THEN [add(char) EXCEPT !.escape_next = TRUE]
                  ELSE add("\\\\")
             ELSE IF char = "\""
             THEN [add(char) EXCEPT !.in_string = ~st.in_string]
             ELSE IF st.in_string /\ char = "\n" THEN add("\\n")
             ELSE IF st.in_string /\ char = "\r" THEN add("\\r")
             ELSE IF st.in_string /\ char = "\t" THEN add("\\t")
             ELSE add(char)

\* cleaned_str of the repair pass: the rewritten text, closed if it ends
\* inside a string, with one "}" for each brace left open
Repair(raw_args) ==
    LET count(str, c) == Cardinality({ i \in 1..Len(str) : Ch(str, i) = c })
        RECURSIVE closing(_)
        closing(n) == IF n <= 0 THEN "" ELSE "}" \o closing(n - 1)
    IN  CHOOSE repaired \in
            { cleaned_str \o closing(count(cleaned_str, "{") - count(cleaned_str, "}")) :
                cleaned_str \in
                  { IF st.in_string THEN st.cleaned \o "\"}" ELSE st.cleaned :
                      st \in { RepairScan(text, 1, Len(text),
                                          [in_string |-> FALSE, escape_next |-> FALSE,
                                           cleaned |-> ""]) :
                                 text \in { raw_args } } } } : TRUE

\* str.replace(old, new) for a two-character old over s[lo..hi]: st is
\* [out, skip], skip set while the second character of a match is passed
RECURSIVE Replace(_, _, _, _, _, _)
Replace(s, lo, hi, old, new, st) ==
    IF lo > hi
    THEN st
    ELSE IF lo < hi
    THEN CHOOSE end \in UNION {
           { Replace(s, mid + 1, hi, old, new, left) :
               left \in { Replace(s, lo, mid, old, new, st) } } :
             mid \in { (lo + hi) \div 2 } } : TRUE
    ELSE IF st.skip
    THEN [st EXCEPT !.skip = FALSE]
    ELSE IF lo < Len(s) /\ SubSeq(s, lo, lo + 1) = old
    THEN [out |-> st.out \o new, skip |-> TRUE]
    ELSE [st EXCEPT !.out = st.out \o Ch(s, lo)]

\* _unescape_text
UnescapeText(value, keep_surrounding_whitespace) ==
    LET kept(str) == { i \in 1..Len(str) : Ch(str, i) \notin Whitespace }
        strip(str, idx) ==
            IF idx = {} THEN ""
            ELSE SubSeq(str, CHOOSE i \in idx : \A j \in idx : i <= j,
                             CHOOSE i \in idx : \A j \in idx : i >= j)
        none == [out |-> "", skip |-> FALSE]
    IN  CHOOSE text \in
            { IF keep_surrounding_whitespace THEN converted
              ELSE strip(converted, kept(converted)) :
                converted \in
                  { Replace(c, 1, Len(c), "\\t", "\t", none).out : c \in
                  { Replace(b, 1, Len(b), "\\r", "\r", none).out : b \in
                  { Replace(a, 1, Len(a), "\\n", "\n", none).out : a \in
                  { Replace(v, 1, Len(v), "\\\\", "\\", none).out : v \in { value } } } } } } : TRUE

\* the while loop of extract_key_string over raw_args[lo..hi]: st is
\* [buffer, skip, done], skip set while the character after a backslash is
\* passed (the loop has added it and moved index by two), done after break
RECURSIVE ExtractScan(_, _, _, _)
ExtractScan(raw_args, lo, hi, st) ==
    IF lo > hi \/ st.done
    THEN st
    ELSE IF lo < hi
    THEN CHOOSE end \in UNION {
           { ExtractScan(raw_args, mid + 1, hi, left) :
               left \in { ExtractScan(raw_args, lo, mid, st) } } :
             mid \in { (lo + hi) \div 2 } } : TRUE
    ELSE LET char == Ch(raw_args, lo)
             lookahead == SkipWs(raw_args, lo + 1)
             add(t) == [st EXCEPT !.buffer = st.buffer \o t]
         IN  IF st.skip
             THEN [st EXCEPT !.skip = FALSE]
             ELSE IF char = "\\"
             THEN IF lo + 1 <= Len(raw_args)
                  THEN [add(char \o Ch(raw_args, lo + 1)) EXCEPT !.skip = TRUE]
                  ELSE add(char)
             ELSE IF char = "\""
             THEN IF lookahead > Len(raw_args) \/ Ch(raw_args, lookahead) \in { ",", "}" }
                  THEN [st EXCEPT !.done = TRUE]
                  ELSE add(char)
             ELSE add(char)

\* extract_key_string: {} for None, else the set of the one value.  The
\* marker is the leftmost match of "key"\s*:\s*"
ExtractKeyString(raw_args, key) ==
    LET quoted == "\"" \o key \o "\""
        colon(i) == SkipWs(raw_args, i + Len(quoted))
        open(i) == SkipWs(raw_args, colon(i) + 1)
        markers == { i \in 1..Len(raw_args) :
                       /\ i + Len(quoted) - 1 <= Len(raw_args)
                       /\ SubSeq(raw_args, i, i + Len(quoted) - 1) = quoted
                       /\ Ch(raw_args, colon(i)) = ":"
                       /\ Ch(raw_args, open(i)) = "\"" }
        start == CHOOSE i \in markers : \A j \in markers : i <= j
    IN  IF markers = {} THEN {}
        ELSE { UnescapeText(ExtractScan(raw_args, from, Len(raw_args),
                                        [buffer |-> "", skip |-> FALSE, done |-> FALSE]).buffer,
                            TRUE) :
                 from \in { open(start) + 1 } }

\* _extract_text_tool_arguments: {} for None, else the set of the one dict
ExtractTextToolArguments(raw_args, tool_name) ==
    LET first == IF tool_name = "memorize_chapter_event" THEN "chapter_title" ELSE "filename"
        second == IF tool_name = "memorize_chapter_event" THEN "memory_summary" ELSE "content"
    IN  IF tool_name \in { "write_file", "append_file", "memorize_chapter_event" }
        THEN { [k \in { first, second } |-> IF k = first THEN UnescapeText(a, FALSE) ELSE b] :
                 a \in ExtractKeyString(raw_args, first),
                 b \in ExtractKeyString(raw_args, second) }
        ELSE IF tool_name = "memorize_important_fact"
        THEN { [content |-> b] : b \in ExtractKeyString(raw_args, "content") }
        ELSE {}

\* parse_arguments that runs the repair pass on every text
ParseArgumentsRepairFirst(raw_args, tool_name) ==
    LET fixed == JsonLoads(Repair(raw_args))
        extracted == ExtractTextToolArguments(raw_args, tool_name)
    IN  IF fixed.ok
        THEN [ok |-> TRUE, value |-> fixed.value, stages |-> << "repair" >>]
        ELSE IF extracted # {}
        THEN [ok |-> TRUE, value |-> CHOOSE a \in extracted : TRUE,
              stages |-> << "repair", "extract" >>]
        ELSE [ok |-> FALSE, value |-> << >>, stages |-> << "repair", "extract" >>]

\* parse_arguments that tries the fallback extractor before the repair pass
ParseArgumentsExtractFirst(raw_args, tool_name) ==
    LET direct == JsonLoads(raw_args)
        fixed == JsonLoads(Repair(raw_args))
        extracted == ExtractTextToolArguments(raw_args, tool_name)
    IN  IF direct.ok
        THEN [ok |-> TRUE, value |-> direct.value, stages |-> << "direct" >>]
        ELSE IF extracted # {}
        THEN [ok |-> TRUE, value |-> CHOOSE a \in extracted : TRUE,
              stages |-> << "direct", "extract" >>]
        ELSE IF fixed.ok
        THEN [ok |-> TRUE, value |-> fixed.value, stages |-> << "direct", "extract", "repair" >>]
        ELSE [ok |-> FALSE, value |-> << >>, stages |-> << "direct", "extract", "repair" >>]

\* parse_arguments: [ok, value, stages]; stages lists the stages entered
\* (json.loads of the text, the repair pass, the fallback extractor) and ok
\* is FALSE where it raises ValueError
ParseArguments(raw_args, tool_name) ==
    CHOOSE parsed \in
      { IF direct.ok
        THEN [ok |-> TRUE, value |-> direct.value, stages |-> << "direct" >>]
        ELSE (CHOOSE repaired \in
          { IF fixed.ok
            THEN [ok |-> TRUE, value |-> fixed.value, stages |-> << "direct", "repair" >>]
            ELSE (CHOOSE recovered \in
              { IF extracted # {}
                THEN [ok |-> TRUE, value |-> CHOOSE a \in extracted : TRUE,
                      stages |-> << "direct", "repair", "extract" >>]
                ELSE [ok |-> FALSE, value |-> << >>,
                      stages |-> << "direct", "repair", "extract" >>] :
                  extracted \in { ExtractTextToolArguments(raw_args, tool_name) } } : TRUE) :
              fixed \in { JsonLoads(Repair(raw_args)) } } : TRUE) :
          direct \in { JsonLoads(raw_args) } } : TRUE

\* the result of execute for a payload json.loads turns into args that is
\* a list (every `p not in args` is true) or a number (`p not in args` and
\* f(**args) raise TypeError inside the try block, reported as f"Error: {e}")
ExecuteNonObject(name, form) ==
    IF form = "array" /\ RequiredParams(name) # NoParams
    THEN IF name = "write_file" THEN ErrWriteFileNoContent
         ELSE ErrMissing(RequiredParams(name))
    ELSE IF form = "scalar" /\ RequiredParams(name) # NoParams
    THEN "Error: argument of type 'int' is not iterable"
    ELSE "Error: argument after ** must be a mapping"

\* ToolRegistry.execute: [raised, result, docs].  A payload of None makes
\* json.loads raise TypeError, and the handler of that exception slices
\* raw_args[:200], which raises again: execute raises to its caller.
Execute(tool_call, d) ==
    LET name == tool_call.function.name
        raw_args == tool_call.function.arguments
    IN  CHOOSE outcome \in {
        IF raw.form = "none"
        THEN [raised |-> TRUE, result |-> "", docs |-> d]
        ELSE IF raw.form = "malformed"
        THEN [raised |-> FALSE, result |-> ErrInvalidArguments, docs |-> d]
        ELSE IF name \notin ToolNames
        THEN [raised |-> FALSE, result |-> ErrToolNotFound(name), docs |-> d]
        ELSE IF raw.form \in { "array", "scalar" }
        THEN [raised |-> FALSE, result |-> ExecuteNonObject(name, raw.form), docs |-> d]
        ELSE LET missing == Missing(name, raw.args, NullKeys(raw))
             IN  IF missing # << >>
                 THEN [raised |-> FALSE,
                       result |-> IF name = "write_file" /\ "content" \in Range(missing)
                                  THEN ErrWriteFileNoContent
                                  ELSE IF name = "write_file"
                                  THEN ErrWriteFileNoFilename
                                  ELSE ErrMissing(missing),
                       docs |-> d]
                 ELSE IF ~(DOMAIN raw.args \cup NullKeys(raw) \subseteq Params(name))
                 THEN [raised |-> FALSE,
                       result |-> "Error: got an unexpected keyword argument",
                       docs |-> d]
                 ELSE [raised |-> FALSE] @@ Invoke(name, raw.args, d) :
          raw \in { IF raw_args.form # "text" THEN raw_args
                    ELSE CHOOSE args \in
                           { IF parsed.ok THEN Json(parsed.value)
                             ELSE NonObject("malformed") :
                               parsed \in { ParseArguments(raw_args.text, name) } } :
                           TRUE } } : TRUE

-----------------------------------------------------------------------------
(* Messages (agent/loop.py, agent/sync_runner.py).  A response content of  *)
(* None is written "": every use in the code reads it through              *)
(* `content or ""`, _clean_content (None -> "") or a truth test.           *)

UserMsg(text) == [role |-> "user", content |-> text]

AssistantMsg(content) == [role |-> "assistant", content |-> content]

SystemMsg(content) == [role |-> "system", content |-> content]

\* tool_call_msg / assistant_msg of a response that carries tool calls
ToolCallMsg(response) ==
    [role |-> "assistant", content |-> response.content,
     tool_calls |-> response.tool_calls]

\* tool_msg: the result of one call
\* a tool message that does not name the call it answers
ToolMsgUnlabelled(tool_call, result) ==
    [role |-> "tool", tool_call_id |-> "", content |-> result]

ToolMsg(tool_call, result) ==
    [role |-> "tool", tool_call_id |-> tool_call.id, content |-> result]

Role(msg) == Get(msg, "role", "")

\* msg.get("tool_calls") is truthy
HasToolCalls(msg) == Get(msg, "tool_calls", << >>) # << >>

ToolCallNames(msg) ==
    [i \in 1..Len(msg.tool_calls) |-> msg.tool_calls[i].function.name]

BulkTools == { "write_file", "memorize_chapter_event" }

\* is_content_tool
IsContentTool(msg) == \E i \in 1..Len(msg.tool_calls) : ToolCallNames(msg)[i] \in BulkTools

\* AgentLoop.TOOL_CALL_PATTERNS, and _detect_fake_tool_calls on lower-case text
TOOL_CALL_PATTERN == "tool_call"

DetectFakeToolCalls(content) == content # "" /\ Contains(content, TOOL_CALL_PATTERN)

MissingContentCorrection ==
    SystemMsg("CRITICAL: You have called write_file multiple times without providing the 'content' parameter. STOP and think: You must provide the COMPLETE text content in the 'content' parameter. Do not call write_file until you have the full content ready.")

FakeToolCorrection ==
    SystemMsg("IMPORTANT: You just output tool calls as text instead of using the actual tool system. When you want to use a tool, you must NOT output text like 'Using Tool: xxx' or 'minimax:tool_call'. Instead, you should use the tool_calls mechanism provided by the API. Please try again and use the proper tool format.")

\* ContextBuilder.build_system_prompt: an external collaborator that yields a string
SystemPrompt(d) == "# IDENTITY"

-----------------------------------------------------------------------------
(* AgentLoop._build_context_messages.                                      *)

\* skip_next_tools after the loop body has run for h[1..i]
RECURSIVE SkipNextTools(_, _)
SkipNextTools(h, i) ==
    IF i = 0 THEN FALSE
    ELSE LET msg == h[i]
             before == SkipNextTools(h, i - 1)
         IN  IF Role(msg) = "system" THEN before
             ELSE IF Role(msg) = "assistant" /\ HasToolCalls(msg)
             THEN (IF IsContentTool(msg) THEN TRUE ELSE before)
             ELSE IF Role(msg) = "tool" THEN before
             ELSE FALSE

\* file_paths of a bulk-content tool-call message; json.loads(None) raises
\* inside the bare try/except, which skips the call, as does a text
\* json.loads rejects and args.get on a list or a number
RECURSIVE FilePaths(_)
FilePaths(tool_calls) ==
    IF tool_calls = << >> THEN << >>
    ELSE LET tc == Head(tool_calls)
             name == tc.function.name
             raw == tc.function.arguments
             rest == FilePaths(Tail(tool_calls))
             loaded == raw.form = "json" \/ (raw.form = "text" /\ JsonLoads(raw.text).ok)
             args == IF raw.form = "text" THEN JsonLoads(raw.text).value ELSE raw.args
         IN  IF name \notin BulkTools \/ ~loaded THEN rest
             ELSE IF name = "write_file"
             THEN << Get(args, "filename", "unknown") >> \o rest
             ELSE << "memory: " \o Get(args, "chapter_title", "unknown") >> \o rest

\* what the loop body appends to `compacted` for h[i], a message it keeps
CompactEntry(h, i) ==
    LET msg == h[i]
    IN  IF Role(msg) = "assistant" /\ HasToolCalls(msg)
        THEN IF IsContentTool(msg)
             THEN AssistantMsg("[Saved content to: " \o Join(FilePaths(msg.tool_calls)) \o "]")
             ELSE AssistantMsg("[Using tools: " \o Join(ToolCallNames(msg)) \o "]")
        ELSE IF Role(msg) = "tool"
        THEN IF SkipNextTools(h, i - 1)
             THEN IF StartsWith(Get(msg, "content", ""), "Error:")
                  THEN AssistantMsg("[write_file failed]")
                  ELSE AssistantMsg("[write_file completed successfully]")
             ELSE IF StartsWith(Get(msg, "content", ""), "Error:")
                  THEN AssistantMsg("[Tool error occurred]")
                  ELSE AssistantMsg("[Tool executed successfully]")
        ELSE msg

\* the positions of history whose message yields an entry of `compacted`:
\* system messages are skipped, every other message yields exactly one entry
KeptIdx(h) ==
    SelectSeq([i \in 1..Len(h) |-> i],
              LAMBDA i : Role(h[i]) \in { "user", "assistant", "tool" })

\* compacted
Compacted(h) == [k \in 1..Len(KeptIdx(h)) |-> CompactEntry(h, KeptIdx(h)[k])]

OmittedMsg(n) ==
    SystemMsg("[Previous " \o ToString(n) \o " turns omitted. Key info in memory.]")

\* a context without the notice of what was omitted
BuildContextMessagesNoNotice(h, d) ==
    << SystemMsg(SystemPrompt(d)) >> \o LastN(Compacted(h), MAX_CONTEXT_MESSAGES)

\* _build_context_messages
BuildContextMessages(h, d) ==
    LET compacted == Compacted(h)
        context_msgs == LastN(compacted, MAX_CONTEXT_MESSAGES)
    IN  << SystemMsg(SystemPrompt(d)) >>
        \o (IF Len(compacted) > MAX_CONTEXT_MESSAGES
            THEN << OmittedMsg(Len(compacted) - Len(context_msgs)) >>
            ELSE << >>)
        \o context_msgs

-----------------------------------------------------------------------------
(* Session records: memory/sessions/session_<session_id>.json.             *)
(* JSON text is a tagged tree: <<"str", s>>, <<"null">>, <<"arr", seq>>,   *)
(* <<"obj", record>>.                                                      *)

\* datetime.now().strftime("%Y%m%d_%H%M%S"): fixed width, so name order is time order
Stamp(t) == "20240101_00000" \o ToString(t)

SyncSuffix == "_sync"

IsSyncId(id) ==
    Len(id) >= Len(SyncSuffix)
    /\ SubSeq(id, Len(id) - Len(SyncSuffix) + 1, Len(id)) = SyncSuffix

\* _get_session_path
SessionFileName(id) == "session_" \o id \o ".json"

\* the characters of the file names, in code point order
Alphabet == ".0123456789_abcdefghijklmnopqrstuvwxyz"

Ord(c) == CHOOSE i \in 1..Len(Alphabet) : SubSeq(Alphabet, i, i) = c

\* a < b for str (and for Path of one directory)
RECURSIVE StrLess(_, _)
StrLess(a, b) ==
    IF b = "" THEN FALSE
    ELSE IF a = "" THEN TRUE
    ELSE LET ca == SubSeq(a, 1, 1)
             cb == SubSeq(b, 1, 1)
         IN  IF ca = cb THEN StrLess(SubSeq(a, 2, Len(a)), SubSeq(b, 2, Len(b)))
             ELSE Ord(ca) < Ord(cb)

JStr(s) == << "str", s >>

JArguments(raw) == IF raw.form = "none" THEN << "null" >> ELSE << "str", raw >>

JToolCall(tc) ==
    << "obj", [id |-> JStr(tc.id), type |-> JStr(tc.type),
               function |-> << "obj", [name |-> JStr(tc.function.name),
                                       arguments |-> JArguments(tc.function.arguments)] >>] >>

JMessage(msg) ==
    << "obj", [k \in DOMAIN msg |->
                 IF k = "tool_calls"
                 THEN << "arr", [i \in 1..Len(msg[k]) |-> JToolCall(msg[k][i])] >>
                 ELSE JStr(msg[k])] >>

\* json.dump({"session_id": ..., "timestamp": ..., "history": ...})
JsonDump(id, stamp, h) ==
    << "obj", [session_id |-> JStr(id), timestamp |-> JStr(stamp),
               history |-> << "arr", [i \in 1..Len(h) |-> JMessage(h[i])] >>] >>

PyArguments(j) == IF j[1] = "null" THEN NoneArgs ELSE j[2]

PyToolCall(j) ==
    [id |-> j[2].id[2], type |-> j[2].type[2],
     function |-> [name |-> j[2].function[2].name[2],
                   arguments |-> PyArguments(j[2].function[2].arguments)]]

PyMessage(j) ==
    [k \in DOMAIN j[2] |->
       IF k = "tool_calls"
       THEN [i \in 1..Len(j[2][k][2]) |-> PyToolCall(j[2][k][2][i])]
       ELSE j[2][k][2]]

\* a load that keeps the fresh session id of the new controller
FreshSessionId(json, fresh) == fresh

\* json.load(f), then data.get("history", []) and data.get("session_id", fresh)
LoadedHistory(json) ==
    IF "history" \in DOMAIN json[2]
    THEN [i \in 1..Len(json[2].history[2]) |-> PyMessage(json[2].history[2][i])]
    ELSE << >>

LoadedSessionId(json, fresh) ==
    IF "session_id" \in DOMAIN json[2] THEN json[2].session_id[2] ELSE fresh

\* _save_session: the file of self.session_id is rewritten in full
SaveSession(dir, id, h, t) ==
    LET name == SessionFileName(id)
        file == [json |-> JsonDump(id, Stamp(t), h), mtime |-> t]
    IN  [f \in DOMAIN dir \cup {name} |-> IF f = name THEN file ELSE dir[f]]

\* sorted(sessions_dir.glob("session_*.json"))[-1]
LatestFile(dir) ==
    CHOOSE f \in DOMAIN dir : \A g \in DOMAIN dir : g = f \/ StrLess(g, f)

NoFile == ""

\* a load that goes on to the latest record it can read
LoadSessionFallsBack(dir, fresh) ==
    LET readable == [f \in { g \in DOMAIN dir : dir[g].json[1] = "obj" } |-> dir[f]]
    IN  IF DOMAIN readable = {}
        THEN [session_id |-> fresh, history |-> << >>,
              selected |-> IF DOMAIN dir = {} THEN NoFile ELSE LatestFile(dir)]
        ELSE [session_id |-> LoadedSessionId(readable[LatestFile(readable)].json, fresh),
              history |-> LoadedHistory(readable[LatestFile(readable)].json),
              selected |-> IF DOMAIN dir = {} THEN NoFile ELSE LatestFile(dir)]

\* AgentLoop.__init__ with _load_session: [session_id, history, selected].
\* A file whose text json.load rejects (tag "bad") makes it raise, and one
\* whose text is JSON but no object makes data.get raise; `except Exception`
\* logs either, and the controller keeps what __init__ has set
LoadSession(dir, fresh) ==
    IF DOMAIN dir = {}
    THEN [session_id |-> fresh, history |-> << >>, selected |-> NoFile]
    ELSE LET latest == LatestFile(dir)
         IN  IF dir[latest].json[1] # "obj"
             THEN [session_id |-> fresh, history |-> << >>, selected |-> latest]
             ELSE [session_id |-> LoadedSessionId(dir[latest].json, fresh),
                   history |-> LoadedHistory(dir[latest].json),
                   selected |-> latest]

-----------------------------------------------------------------------------
(* The environment: the language model behind LLMProvider.chat, and the    *)
(* user at the prompt.                                                     *)

UserText == "write chapter 1"
PlainText == "Chapter 1 is saved."
FakeText == "<tool_call>write_file</tool_call>"

DraftFile == "drafts/chapter_01_Start.md"
ChapterTitle == "Chapter 01: Start"

CallRead == [name |-> "read_file", arguments |-> Json([filename |-> "OUTLINE.md"])]
CallWrite ==
    [name |-> "write_file",
     arguments |-> Json([filename |-> DraftFile, content |-> "It began."])]
CallWriteNoContent ==
    [name |-> "write_file", arguments |-> Json([filename |-> DraftFile])]
CallAppendNoContent ==
    [name |-> "append_file", arguments |-> Json([filename |-> "OUTLINE.md"])]
CallMemorize ==
    [name |-> "memorize_chapter_event",
     arguments |-> Json([chapter_title |-> ChapterTitle, memory_summary |-> "- it began"])]
CallNone == [name |-> "read_file", arguments |-> NoneArgs]
\* a call whose argument text none of the stages of parse_arguments parses
CallMalformed ==
    [name |-> "read_file",
     arguments |-> RawText("{\"filename\": \"a.md\", \"content\": \"say \"hi\" now\"}")]

\* One reply of the model: a text, a batch of tool calls in the order the
\* model issues them (with the text beside them), or a failure of
\* LLMProvider.chat after its retries
Text(content) == [kind |-> "text", content |-> content, batch |-> << >>]
Tools(batch) == [kind |-> "tools", content |-> "", batch |-> batch]
ToolsAndText(batch, content) == [kind |-> "tools", content |-> content, batch |-> batch]
Raise == [kind |-> "raise", content |-> "", batch |-> << >>]

ReadBatch == << CallRead >>
SaveBatch == << CallWrite, CallMemorize >>
NoContentBatch == << CallWriteNoContent, CallWriteNoContent >>
AppendBatch == << CallAppendNoContent, CallAppendNoContent, CallAppendNoContent >>
NoneBatch == << CallRead, CallNone >>

\* What a model of class "free" replies in one turn, call after call; once the
\* script is used up it replies in plain text.  The empty script is the turn
\* answered in plain text at once.
Scripts ==
    { << Text("") >>, << Raise >>,
      << Text(FakeText) >>, << Text(FakeText), Text(FakeText) >>,
      << Text(FakeText), Raise >>, << Text(FakeText), Tools(ReadBatch) >>,
      << Tools(ReadBatch) >>, << Tools(SaveBatch) >>, << Tools(NoContentBatch) >>,
      << Tools(AppendBatch) >>, << Tools(NoneBatch) >>, << Tools(<< CallMalformed >>) >>,
      << Tools(SaveBatch), Tools(ReadBatch) >>,
      << Tools(ReadBatch), Raise >>, << Tools(ReadBatch), Text(FakeText) >> }

\* What it replies to the calls of one sync analysis
SyncScripts ==
    { << >>, << Raise >>, << Tools(ReadBatch) >>, << Tools(SaveBatch) >>,
      << Tools(NoneBatch) >>, << Tools(ReadBatch), Raise >> }

\* The scripts the model may follow in a turn that starts now
TurnScripts == IF llm = "free" /\ events < MaxEvents THEN Scripts \cup { << >> } ELSE { << >> }

\* The scripts it may follow in a turn of the sync runner
RunnerScripts == IF llm = "free" /\ events < MaxEvents THEN SyncScripts ELSE { << >> }

Spent(s) == IF s = << >> THEN events ELSE events + 1

\* The replies the model may give to the call made at `site`.  A model of
\* class "tools_always" requests a tool in every reply; the text beside its
\* tool calls varies where the controller reads it, and the forced call may
\* fail instead of being replied to.
Replies(site) ==
    IF llm = "tools_always"
    THEN { Tools(ReadBatch) }
         \cup (IF site \in { "forced", "retry" } /\ events < MaxEvents
               THEN { ToolsAndText(ReadBatch, FakeText) } ELSE {})
         \cup (IF site = "forced" THEN { Raise } ELSE {})
    ELSE { IF script = << >> THEN Text(PlainText) ELSE Head(script) }

\* script and events after the reply
Replied(reply) ==
    /\ script' = IF script = << >> THEN script ELSE Tail(script)
    /\ events' = IF llm = "tools_always" /\ reply.content # "" THEN events + 1 ELSE events

\* the model issues distinct call ids: `base` is the length of the list the
\* tool-call message is appended to
WithIds(batch, base) ==
    [i \in 1..Len(batch) |->
       [id |-> "call_" \o ToString(base) \o "_" \o ToString(i),
        type |-> "function", function |-> batch[i]]]

\* response.choices[0].message
Response(reply, base) ==
    [tool_calls |-> WithIds(reply.batch, base), content |-> reply.content]

NoResponse == [tool_calls |-> << >>, content |-> ""]

-----------------------------------------------------------------------------
(* AgentLoop (agent/loop.py).                                              *)

Init ==
    /\ clock = 0
    /\ sessions = << >>
    /\ docs = << >>
    /\ llm \in { "free", "tools_always" }
    /\ events = 0
    /\ script = << >>
    /\ proc = "none"
    /\ pc = "off"
    /\ session_id = ""
    /\ history = << >>
    /\ messages = << >>
    /\ current_response = NoResponse
    /\ loop_count = 0
    /\ tool_idx = 0
    /\ depth = 0
    /\ selected = NoFile
    /\ executed = << >>
    /\ calls = << >>
    /\ turn_start = 0
    /\ error = ""

\* a history that keeps only as many messages as the context window holds
HistoryAppendWindowed(h, msg) == LastN(Append(h, msg), MAX_CONTEXT_MESSAGES)

\* self.history.append(msg)
HistoryAppend(h, msg) == Append(h, msg)

\* The process ends: its memory is gone, the files stay
ProcessEnds ==
    /\ proc' = "none"
    /\ pc' = "off"
    /\ script' = << >>
    /\ session_id' = ""
    /\ history' = << >>
    /\ messages' = << >>
    /\ current_response' = NoResponse
    /\ loop_count' = 0
    /\ tool_idx' = 0
    /\ depth' = 0
    /\ selected' = NoFile
    /\ executed' = << >>
    /\ calls' = << >>
    /\ turn_start' = 0
    /\ error' = ""

\* `start` of the CLI: AgentLoop() and its start() up to the first prompt
StartAgent ==
    /\ proc = "none"
    /\ clock < MaxClock
    /\ clock' = clock + 1
    /\ LET loaded == LoadSession(sessions, Stamp(clock'))
       IN  /\ session_id' = loaded.session_id
           /\ history' = loaded.history
           /\ selected' = loaded.selected
    /\ proc' = "agent"
    /\ pc' = "input"
    /\ UNCHANGED << error, sessions, docs, llm, events, script, messages, current_response,
                    loop_count, tool_idx, depth, executed, calls, turn_start >>

\* Ctrl-C while the loop waits for input.  The loops run under asyncio.run
\* (cli/main.py:121), which answers SIGINT by cancelling the main task: the
\* await of the input raises CancelledError, which neither
\* `except KeyboardInterrupt` nor `except Exception` catches, and the
\* process ends without _save_session.
Interrupt ==
    /\ \/ proc = "agent" /\ pc = "input"
       \/ proc = "sync" /\ pc = "srun_input"
    /\ ProcessEnds
    /\ UNCHANGED << clock, sessions, docs, llm, events >>

\* start(): "exit" / "quit" at the prompt
UserExit ==
    /\ proc = "agent"
    /\ pc = "input"
    /\ sessions' = SaveSession(sessions, session_id, history, clock)
    /\ ProcessEnds
    /\ UNCHANGED << clock, docs, llm, events >>

\* a loop that also reads a message while a follow-up call is pending
UserMessageMidTurn ==
    /\ proc = "agent"
    /\ pc \in { "input", "chat_follow" }
    /\ Len(history) < MaxHistory
    /\ \E s \in TurnScripts : script' = s /\ events' = Spent(s)
    /\ history' = HistoryAppend(history, UserMsg(UserText))
    /\ messages' = BuildContextMessages(history', docs)
    /\ loop_count' = 0
    /\ turn_start' = Len(history)
    /\ calls' = << >>
    /\ pc' = "chat_first"
    /\ UNCHANGED << error, clock, sessions, docs, llm, proc, session_id,
                    current_response, tool_idx, depth, selected, executed >>

\* start() reads a message; process_turn up to its first provider.chat
UserMessage ==
    /\ proc = "agent"
    /\ pc = "input"
    /\ Len(history) < MaxHistory
    /\ \E s \in TurnScripts : script' = s /\ events' = Spent(s)
    /\ history' = HistoryAppend(history, UserMsg(UserText))
    /\ messages' = BuildContextMessages(history', docs)
    /\ loop_count' = 0
    /\ turn_start' = Len(history)
    /\ calls' = << >>
    /\ pc' = "chat_first"
    /\ UNCHANGED << error, clock, sessions, docs, llm, proc, session_id,
                    current_response, tool_idx, depth, selected, executed >>

\* a final response that is shown but not recorded
HandleFinalResponseSilent(response) ==
    IF DetectFakeToolCalls(response.content)
    THEN /\ history' = HistoryAppend(history, AssistantMsg(response.content))
         /\ messages' = Append(BuildContextMessages(history', docs), FakeToolCorrection)
         /\ pc' = "chat_retry"
    ELSE /\ history' = history
         /\ messages' = messages
         /\ pc' = "turn_done"

\* a correction that is recorded in the conversation
HandleFinalResponseKeepsCorrection(response) ==
    IF DetectFakeToolCalls(response.content)
    THEN /\ history' = HistoryAppend(HistoryAppend(history, AssistantMsg(response.content)),
                                     FakeToolCorrection)
         /\ messages' = BuildContextMessages(history', docs)
         /\ pc' = "chat_retry"
    ELSE /\ history' = IF response.content # ""
                       THEN HistoryAppend(history, AssistantMsg(response.content))
                       ELSE history
         /\ messages' = messages
         /\ pc' = "turn_done"

\* _handle_final_response(response): the effect on history, messages and pc
HandleFinalResponse(response) ==
    IF DetectFakeToolCalls(response.content)
    THEN /\ history' = HistoryAppend(history, AssistantMsg(response.content))
         /\ messages' = Append(BuildContextMessages(history', docs), FakeToolCorrection)
         /\ pc' = "chat_retry"
    ELSE /\ history' = IF response.content # ""
                       THEN HistoryAppend(history, AssistantMsg(response.content))
                       ELSE history
         /\ messages' = messages
         /\ pc' = "turn_done"

\* a controller that goes to its forced call at the round limit without
\* executing the pending batch
AfterToolsOfferedCallDropsBatch(response) ==
    /\ current_response' = response
    /\ UNCHANGED error
    /\ IF response.tool_calls # << >> /\ loop_count < MAX_LOOPS
       THEN /\ loop_count' = loop_count + 1
            /\ history' = HistoryAppend(history, ToolCallMsg(response))
            /\ messages' = Append(messages, ToolCallMsg(response))
            /\ tool_idx' = 1
            /\ executed' = << >>
            /\ pc' = "tool_loop"
       ELSE IF response.tool_calls # << >>
       THEN /\ pc' = "chat_forced"
            /\ executed' = << >>
            /\ UNCHANGED << history, messages, tool_idx, loop_count >>
       ELSE /\ HandleFinalResponse(response)
            /\ UNCHANGED << loop_count, tool_idx, executed >>

\* process_turn from the return of provider.chat(messages, tools=schemas), at
\* line 238 or 296, to its next await
AfterToolsOfferedCall(response) ==
    /\ current_response' = response
    /\ UNCHANGED error
    /\ IF response.tool_calls # << >> /\ loop_count < MAX_LOOPS
       THEN /\ loop_count' = loop_count + 1
            /\ history' = HistoryAppend(history, ToolCallMsg(response))
            /\ messages' = Append(messages, ToolCallMsg(response))
            /\ tool_idx' = 1
            /\ executed' = << >>
            /\ pc' = "tool_loop"
       ELSE IF response.tool_calls # << >>
       THEN /\ history' = HistoryAppend(history, ToolCallMsg(response))
            /\ messages' = Append(messages, ToolCallMsg(response))
            /\ tool_idx' = 1
            /\ executed' = << >>
            /\ pc' = "tool_final"
            /\ UNCHANGED loop_count
       ELSE /\ HandleFinalResponse(response)
            /\ UNCHANGED << loop_count, tool_idx, executed >>

\* str(e) of what provider.chat raises, and of the TypeError execute raises
ChatFailure == "Connection error."
ExecuteFailure == "'NoneType' object is not subscriptable"

\* print(f"[bold red]Error:[/bold red] {e}")
ErrTurn(e) == "Error: " \o e

\* a turn that fails by dropping what it appended
TurnFailsRollsBack ==
    /\ pc' = "turn_done"
    /\ error' = ErrTurn(ChatFailure)
    /\ history' = SubSeq(history, 1, turn_start)
    /\ UNCHANGED << messages, current_response, loop_count, tool_idx, executed >>

\* `except Exception` of process_turn: the error is printed, the turn is over
TurnFails ==
    /\ pc' = "turn_done"
    /\ error' = ErrTurn(ChatFailure)
    /\ UNCHANGED << history, messages, current_response, loop_count, tool_idx,
                    executed >>

\* current_response = await self.provider.chat(messages, tools=self.tools.schemas), line 238
ChatFirst ==
    /\ proc = "agent"
    /\ pc = "chat_first"
    /\ calls' = Append(calls, "first")
    /\ \E reply \in Replies("first") :
         /\ Replied(reply)
         /\ IF reply.kind = "raise"
            THEN TurnFails
            ELSE AfterToolsOfferedCall(Response(reply, Len(history) + 1))
    /\ UNCHANGED << clock, sessions, docs, llm, proc, session_id, depth, selected,
                    turn_start >>

\* the follow-up call of the while loop, line 296
ChatFollow ==
    /\ proc = "agent"
    /\ pc = "chat_follow"
    /\ calls' = Append(calls, "follow")
    /\ \E reply \in Replies("follow") :
         /\ Replied(reply)
         /\ IF reply.kind = "raise"
            THEN TurnFails
            ELSE AfterToolsOfferedCall(Response(reply, Len(history) + 1))
    /\ UNCHANGED << clock, sessions, docs, llm, proc, session_id, depth, selected,
                    turn_start >>

\* a loop that takes the calls of a response last first
ToolCallAtReversed(response, idx) ==
    response.tool_calls[Len(response.tool_calls) + 1 - idx]

\* `for tool_call in current_response.tool_calls`: the idx-th call of the loop
ToolCallAt(response, idx) == response.tool_calls[idx]

\* the number of tool messages among history[-10:] that carry the
\* missing-content text
RecentErrors(h) ==
    Cardinality({ i \in 1..Len(LastN(h, ErrorWindow)) :
                    /\ Role(LastN(h, ErrorWindow)[i]) = "tool"
                    /\ Contains(Get(LastN(h, ErrorWindow)[i], "content", ""),
                                "Missing required parameters: content") })

\* lines 269-283: whether the correction is injected before this result
NeedsCorrection(h, result) ==
    /\ Contains(result, "Error: Missing required parameters: content")
    /\ RecentErrors(h) >= ErrorThreshold

\* one iteration of the for loop of a tool round, lines 265-292
ExecTool ==
    /\ proc = "agent"
    /\ pc = "tool_loop"
    /\ LET tool_call == ToolCallAt(current_response, tool_idx)
           res == Execute(tool_call, docs)
           corrected == IF NeedsCorrection(history, res.result)
                        THEN << MissingContentCorrection >> ELSE << >>
       IN  /\ executed' = Append(executed, tool_call.id)
           /\ docs' = res.docs
           /\ IF res.raised
              THEN /\ pc' = "turn_done"
                   /\ error' = ErrTurn(ExecuteFailure)
                   /\ UNCHANGED << history, messages, tool_idx >>
              ELSE /\ UNCHANGED error
                   /\ history' = HistoryAppend(history \o corrected,
                                               ToolMsg(tool_call, res.result))
                   /\ messages' = Append(messages \o corrected,
                                         ToolMsg(tool_call, res.result))
                   /\ IF tool_idx < Len(current_response.tool_calls)
                      THEN tool_idx' = tool_idx + 1 /\ pc' = pc
                      ELSE tool_idx' = 0 /\ pc' = "chat_follow"
    /\ UNCHANGED << clock, sessions, llm, events, script, proc, session_id,
                    current_response, loop_count, depth, selected, calls,
                    turn_start >>

\* one iteration of the for loop after the round limit, lines 319-329
ExecFinalTool ==
    /\ proc = "agent"
    /\ pc = "tool_final"
    /\ LET tool_call == ToolCallAt(current_response, tool_idx)
           res == Execute(tool_call, docs)
       IN  /\ executed' = Append(executed, tool_call.id)
           /\ docs' = res.docs
           /\ IF res.raised
              THEN /\ pc' = "turn_done"
                   /\ error' = ErrTurn(ExecuteFailure)
                   /\ UNCHANGED << history, messages, tool_idx >>
              ELSE /\ UNCHANGED error
                   /\ history' = HistoryAppend(history, ToolMsg(tool_call, res.result))
                   /\ messages' = Append(messages, ToolMsg(tool_call, res.result))
                   /\ IF tool_idx < Len(current_response.tool_calls)
                      THEN tool_idx' = tool_idx + 1 /\ pc' = pc
                      ELSE tool_idx' = 0 /\ pc' = "chat_forced"
    /\ UNCHANGED << clock, sessions, llm, events, script, proc, session_id,
                    current_response, loop_count, depth, selected, calls,
                    turn_start >>

\* current_response = await self.provider.chat(messages, tools=None), line 333
ChatForced ==
    /\ proc = "agent"
    /\ pc = "chat_forced"
    /\ calls' = Append(calls, "forced")
    /\ \E reply \in Replies("forced") :
         /\ Replied(reply)
         /\ IF reply.kind = "raise"
            THEN /\ pc' = "turn_done"
                 /\ error' = ErrTurn(ChatFailure)
                 /\ UNCHANGED << history, messages, current_response >>
            ELSE /\ current_response' = Response(reply, Len(history) + 1)
                 /\ UNCHANGED error
                 /\ HandleFinalResponse(current_response')
    /\ UNCHANGED << clock, sessions, docs, llm, proc, session_id, loop_count,
                    tool_idx, depth, selected, executed, turn_start >>

\* corrected_response = await self.provider.chat(messages, tools=schemas), line
\* 385, and the recursive _handle_final_response(corrected_response)
ChatRetry ==
    /\ proc = "agent"
    /\ pc = "chat_retry"
    /\ calls' = Append(calls, "retry")
    /\ \E reply \in Replies("retry") :
         /\ Replied(reply)
         /\ IF reply.kind = "raise"
            THEN /\ pc' = "turn_done"
                 /\ error' = ErrTurn(ChatFailure)
                 /\ UNCHANGED << history, messages, current_response >>
            ELSE /\ current_response' = Response(reply, Len(history) + 1)
                 /\ UNCHANGED error
                 /\ HandleFinalResponse(current_response')
    /\ UNCHANGED << clock, sessions, docs, llm, proc, session_id, loop_count,
                    tool_idx, depth, selected, executed, turn_start >>

\* process_turn has returned: start() saves the session and prompts again
TurnDone ==
    /\ proc = "agent"
    /\ pc = "turn_done"
    /\ sessions' = SaveSession(sessions, session_id, history, clock)
    /\ pc' = "input"
    /\ script' = << >>
    /\ messages' = << >>
    /\ current_response' = NoResponse
    /\ loop_count' = 0
    /\ tool_idx' = 0
    /\ executed' = << >>
    /\ calls' = << >>
    /\ error' = ""
    /\ UNCHANGED << clock, docs, llm, events, proc, session_id, history, depth,
                    selected, turn_start >>

-----------------------------------------------------------------------------
(* The sync check of _build_sync_prompt (agent/loop.py and                 *)
(* agent/sync_runner.py): the regular expressions are computed on the      *)
(* characters of the file names and of the summary.                        *)

\* int of the group (\d+) matched at position i of s
IntAt(s, i) ==
    LET j == CHOOSE j \in i..Len(s) :
                 (\A k \in i..j : IsDigit(s, k)) /\ ~IsDigit(s, j + 1)
    IN  ParseInt(SubSeq(s, i, j))

\* re.search(r'chapter_(\d+)', name): { int(match.group(1)) }, or {} when the
\* name does not match
ChapterNum(name) ==
    LET at == { i \in 1..(Len(name) - 8) :
                  SubSeq(name, i, i + 7) = "chapter_" /\ IsDigit(name, i + 8) }
    IN  IF at = {} THEN {}
        ELSE { IntAt(name, 8 + CHOOSE i \in at : \A k \in at : i <= k) }

\* chapter_nums and memory_nums
DraftNums(d) == UNION { ChapterNum(n) : n \in Glob(d, "drafts/", "chapter_") }
MemoryNums(d) == UNION { ChapterNum(n) : n \in Glob(d, "memory/chapters/", "") }

\* max(int(m) for m in re.findall(r'[Cc]hapter\s*(\d+)', summary)), 0 without match
SummaryChapter(summary) ==
    LET starts == { i \in 1..(Len(summary) - 7) :
                      SubSeq(summary, i, i + 6) \in { "Chapter", "chapter" } }
        digits(i) == CHOOSE k \in (i + 7)..(Len(summary) + 1) :
                         /\ \A b \in (i + 7)..(k - 1) :
                               SubSeq(summary, b, b) \in { " ", "\n", "\t" }
                         /\ ~(k <= Len(summary)
                               /\ SubSeq(summary, k, k) \in { " ", "\n", "\t" })
    IN  MaxOr0({ IntAt(summary, digits(i)) : i \in { k \in starts : IsDigit(summary, digits(k)) } })

\* str(sorted(nums))
RECURSIVE PyList(_)
PyList(nums) ==
    IF nums = {} THEN "[]"
    ELSE LET m == MaxOr0(nums)
         IN  IF nums = { m } THEN "[" \o ToString(m) \o "]"
             ELSE SubSeq(PyList(nums \ { m }), 1, Len(PyList(nums \ { m })) - 1)
                  \o ", " \o ToString(m) \o "]"

\* AgentLoop._build_sync_prompt: prompt_parts from "## Progress Comparison" on
AgentSyncParts(d) ==
    LET missing_memories == DraftNums(d) \ MemoryNums(d)
        orphan_memories == MemoryNums(d) \ DraftNums(d)
        latest_chapter == MaxOr0(DraftNums(d))
        summary_chapter == SummaryChapter(Read(d, "STORY_SUMMARY.md"))
    IN  << "## Progress Comparison", WritingProgress(d) >>
        \o (IF missing_memories # {}
            THEN << "**MISSING CHAPTER MEMORIES**: Chapters " \o PyList(missing_memories)
                      \o " have drafts but no memory summaries." >>
            ELSE << >>)
        \o (IF orphan_memories # {}
            THEN << "**ORPHAN MEMORIES**: Chapters " \o PyList(orphan_memories)
                      \o " have memories but no draft files." >>
            ELSE << >>)
        \o (IF latest_chapter > 0 /\ summary_chapter < latest_chapter
            THEN << "**STORY_SUMMARY OUTDATED**: Latest written chapter is "
                      \o ToString(latest_chapter)
                      \o ", but summary only references up to chapter "
                      \o ToString(summary_chapter) \o "." >>
            ELSE << >>)
        \o << "## Instructions" >>

\* SyncRunner._build_sync_prompt: prompt_parts from "## 1. Chapter vs Draft
\* Consistency Check" on
RunnerSyncParts(d) ==
    LET missing_memories == DraftNums(d) \ MemoryNums(d)
        orphan_memories == MemoryNums(d) \ DraftNums(d)
        summary_content == Read(d, "STORY_SUMMARY.md")
    IN  << "## 1. Chapter vs Draft Consistency Check",
           IF missing_memories # {} \/ orphan_memories # {}
           THEN "Status: Inconsistent" ELSE "Status: Consistent" >>
        \o (IF missing_memories # {}
            THEN << "- **Thinking Required**: Found drafts without memories: "
                      \o PyList(missing_memories) >>
            ELSE << >>)
        \o (IF orphan_memories # {}
            THEN << "- **Notice**: Found memories without drafts: "
                      \o PyList(orphan_memories) >>
            ELSE << >>)
        \o << "## 2. Story Progress vs Summary Alignment",
              "**Detected Progress**: " \o WritingProgress(d),
              IF summary_content # ""
              THEN "**Current STORY_SUMMARY.md Content**:" \o summary_content
              ELSE "**Current STORY_SUMMARY.md**: [EMPTY/MISSING]",
              "## Instructions",
              "3. **Finally**, compare '2. Story Progress vs Summary Alignment'." >>

-----------------------------------------------------------------------------
(* AgentLoop._run_sync: the in-loop sync command.                          *)

\* _build_sync_prompt: the heading of the prompt
SyncPrompt(d) == "# SYNC MODE - Workspace Analysis"

\* a sync command that is recorded in the conversation
UserSyncRecorded ==
    /\ proc = "agent"
    /\ pc = "input"
    /\ events < MaxEvents
    /\ events' = events + 1
    /\ \E s \in IF llm = "free" THEN SyncScripts ELSE { << >> } : script' = s
    /\ history' = HistoryAppend(history, UserMsg("sync"))
    /\ messages' = << SystemMsg(SyncPrompt(docs)) >>
    /\ pc' = "sync_chat"
    /\ UNCHANGED << error, clock, sessions, docs, llm, proc, session_id,
                    current_response, loop_count, tool_idx, depth, selected,
                    executed, calls, turn_start >>

\* start() reads "sync"; _run_sync up to its first provider.chat
UserSync ==
    /\ proc = "agent"
    /\ pc = "input"
    /\ events < MaxEvents
    /\ events' = events + 1
    /\ \E s \in IF llm = "free" THEN SyncScripts ELSE { << >> } : script' = s
    /\ messages' = << SystemMsg(SyncPrompt(docs)) >>
    /\ pc' = "sync_chat"
    /\ UNCHANGED << error, clock, sessions, docs, llm, proc, session_id, history,
                    current_response, loop_count, tool_idx, depth, selected,
                    executed, calls, turn_start >>

\* _run_sync is over (its result printed, or its exception caught): back to the prompt
SyncReturns ==
    /\ pc' = "input"
    /\ script' = << >>
    /\ messages' = << >>
    /\ current_response' = NoResponse
    /\ tool_idx' = 0
    /\ executed' = << >>
    /\ calls' = << >>

\* response = await self.provider.chat(messages, tools=self.tools.schemas), line 413
SyncChat ==
    /\ proc = "agent"
    /\ pc = "sync_chat"
    /\ \E reply \in Replies("sync") :
         IF reply.kind = "tools"
         THEN /\ Replied(reply)
              /\ current_response' = Response(reply, Len(messages) + 1)
              /\ messages' = Append(messages, ToolCallMsg(current_response'))
              /\ tool_idx' = 1
              /\ executed' = << >>
              /\ calls' = Append(calls, "sync")
              /\ pc' = "sync_tools"
         ELSE SyncReturns /\ UNCHANGED events
    /\ UNCHANGED << error, clock, sessions, docs, llm, proc, session_id, history,
                    loop_count, depth, selected, turn_start >>

\* one iteration of the for loop of _run_sync, lines 435-444
SyncExecTool ==
    /\ proc = "agent"
    /\ pc = "sync_tools"
    /\ LET tool_call == ToolCallAt(current_response, tool_idx)
           res == Execute(tool_call, docs)
       IN  /\ docs' = res.docs
           /\ IF res.raised
              THEN SyncReturns
              ELSE /\ executed' = Append(executed, tool_call.id)
                   /\ messages' = Append(messages, ToolMsg(tool_call, res.result))
                   /\ UNCHANGED << current_response, calls, script >>
                   /\ IF tool_idx < Len(current_response.tool_calls)
                      THEN tool_idx' = tool_idx + 1 /\ pc' = pc
                      ELSE tool_idx' = 0 /\ pc' = "sync_follow"
    /\ UNCHANGED << error, clock, sessions, llm, events, proc, session_id, history,
                    loop_count, depth, selected, turn_start >>

\* final_response = await self.provider.chat(messages, tools=schemas), line 448:
\* whatever it returns or raises, _run_sync prints and returns
SyncFollow ==
    /\ proc = "agent"
    /\ pc = "sync_follow"
    /\ SyncReturns
    /\ UNCHANGED << error, clock, sessions, docs, llm, events, proc, session_id, history,
                    loop_count, depth, selected, turn_start >>

-----------------------------------------------------------------------------
(* SyncRunner (agent/sync_runner.py).                                      *)

\* a limit one level deeper
EnterProcessTurnOneMore(d) == IF d >= MaxDepth + 1 THEN "srun_input" ELSE "srun_chat"

\* _process_turn(depth): at the limit it returns without a call
EnterProcessTurn(d) == IF d >= MaxDepth THEN "srun_input" ELSE "srun_chat"

\* SyncRunner() with the default session id, and run() up to _process_turn()
StartSync ==
    /\ proc = "none"
    /\ clock < MaxClock
    /\ clock' = clock + 1
    /\ \E s \in RunnerScripts : script' = s /\ events' = Spent(s)
    /\ session_id' = Stamp(clock') \o SyncSuffix
    /\ history' = << SystemMsg(SyncPrompt(docs)) >>
    /\ sessions' = SaveSession(sessions, session_id', history', clock')
    /\ proc' = "sync"
    /\ depth' = 0
    /\ pc' = EnterProcessTurn(0)
    /\ UNCHANGED << error, docs, llm, messages, current_response, loop_count,
                    tool_idx, selected, executed, calls, turn_start >>

\* response = await self.provider.chat(self.history, tools=schemas), line 226;
\* an exception leaves run() through its `except Exception`
SyncTurnChat ==
    /\ proc = "sync"
    /\ pc = "srun_chat"
    /\ \E reply \in Replies("srun") :
         IF reply.kind = "raise"
         THEN ProcessEnds /\ UNCHANGED << sessions, events >>
         ELSE LET r == Response(reply, Len(history) + 1)
              IN  /\ Replied(reply)
                  /\ current_response' = r
                  /\ calls' = Append(calls, "srun")
                  /\ UNCHANGED << error, proc, session_id, messages, loop_count, depth,
                                  selected, turn_start >>
                  /\ IF r.tool_calls # << >>
                     THEN /\ history' = HistoryAppend(history, ToolCallMsg(r))
                          /\ tool_idx' = 1
                          /\ executed' = << >>
                          /\ pc' = "srun_tools"
                     ELSE /\ history' = IF r.content # ""
                                        THEN HistoryAppend(history, AssistantMsg(r.content))
                                        ELSE history
                          /\ tool_idx' = 0
                          /\ executed' = << >>
                          /\ pc' = "srun_input"
                  /\ sessions' = SaveSession(sessions, session_id, history', clock)
    /\ UNCHANGED << clock, docs, llm >>

\* one iteration of the for loop of _process_turn, lines 250-261, and after
\* the last one the recursive _process_turn(depth + 1)
SyncTurnExecTool ==
    /\ proc = "sync"
    /\ pc = "srun_tools"
    /\ LET tool_call == ToolCallAt(current_response, tool_idx)
           res == Execute(tool_call, docs)
       IN  /\ docs' = res.docs
           /\ IF res.raised
              THEN ProcessEnds /\ UNCHANGED sessions
              ELSE /\ executed' = Append(executed, tool_call.id)
                   /\ history' = HistoryAppend(history, ToolMsg(tool_call, res.result))
                   /\ sessions' = SaveSession(sessions, session_id, history', clock)
                   /\ UNCHANGED << error, proc, session_id, messages, current_response,
                                   loop_count, selected, calls, turn_start, script >>
                   /\ IF tool_idx < Len(current_response.tool_calls)
                      THEN tool_idx' = tool_idx + 1 /\ pc' = pc /\ depth' = depth
                      ELSE /\ tool_idx' = 0
                           /\ depth' = depth + 1
                           /\ pc' = EnterProcessTurn(depth + 1)
    /\ UNCHANGED << clock, llm, events >>

\* a follow-up command that is not saved before the turn starts
SyncUserMessageUnsaved ==
    /\ proc = "sync"
    /\ pc = "srun_input"
    /\ Len(history) < MaxSyncHistory
    /\ \E s \in RunnerScripts : script' = s /\ events' = Spent(s)
    /\ history' = HistoryAppend(history, UserMsg(UserText))
    /\ depth' = 0
    /\ calls' = << >>
    /\ pc' = EnterProcessTurn(0)
    /\ UNCHANGED << error, clock, sessions, docs, llm, proc, session_id, messages,
                    current_response, loop_count, tool_idx, selected, executed,
                    turn_start >>

\* run(): a follow-up command at "Sync > "
SyncUserMessage ==
    /\ proc = "sync"
    /\ pc = "srun_input"
    /\ Len(history) < MaxSyncHistory
    /\ \E s \in RunnerScripts : script' = s /\ events' = Spent(s)
    /\ history' = HistoryAppend(history, UserMsg(UserText))
    /\ sessions' = SaveSession(sessions, session_id, history', clock)
    /\ depth' = 0
    /\ calls' = << >>
    /\ pc' = EnterProcessTurn(0)
    /\ UNCHANGED << error, clock, docs, llm, proc, session_id, messages,
                    current_response, loop_count, tool_idx, selected, executed,
                    turn_start >>

\* run(): "exit" / "quit"
SyncExit ==
    /\ proc = "sync"
    /\ pc = "srun_input"
    /\ sessions' = SaveSession(sessions, session_id, history, clock)
    /\ ProcessEnds
    /\ UNCHANGED << clock, docs, llm, events >>

-----------------------------------------------------------------------------

Next ==
    \/ StartAgent
    \/ UserExit
    \/ UserMessage
    \/ ChatFirst
    \/ ChatFollow
    \/ ExecTool
    \/ ExecFinalTool
    \/ ChatForced
    \/ ChatRetry
    \/ TurnDone
    \/ UserSync
    \/ SyncChat
    \/ SyncExecTool
    \/ SyncFollow
    \/ StartSync
    \/ SyncTurnChat
    \/ SyncTurnExecTool
    \/ SyncUserMessage
    \/ SyncExit
    \/ Interrupt

Spec == Init /\ [][Next]_vars

\* A turn that has started runs on: provider.chat returns or raises after its
\* retries, and a tool returns
TurnStep ==
    \/ ChatFirst
    \/ ChatFollow
    \/ ExecTool
    \/ ExecFinalTool
    \/ ChatForced
    \/ ChatRetry
    \/ TurnDone

\* the steps of a sync turn that do not wait for the user
SyncTurnStep == SyncTurnChat \/ SyncTurnExecTool

FairSpec == Spec /\ WF_vars(TurnStep) /\ WF_vars(SyncTurnStep)

\* The workspace holds the record of an earlier session: one turn answered in
\* plain text, saved before the first process of this run starts; or that
\* record under an older id and, as the latest record, a file that was cut
\* off while it was written and is no JSON text
EarlierSessionId == Stamp(0)

EarlierHistory == << UserMsg(UserText), AssistantMsg(PlainText) >>

ResumeInit ==
    /\ clock = 0
    /\ sessions \in
         { SaveSession(<< >>, EarlierSessionId, EarlierHistory, 0),
           [f \in { SessionFileName("20231231_235959"), SessionFileName(EarlierSessionId) } |->
              IF f = SessionFileName(EarlierSessionId)
              THEN [json |-> << "bad", << >> >>, mtime |-> 0]
              ELSE [json |-> JsonDump("20231231_235959", "20231231_235959", EarlierHistory),
                    mtime |-> 0]] }
    /\ docs = << >>
    /\ llm \in { "free", "tools_always" }
    /\ events = 0
    /\ script = << >>
    /\ proc = "none"
    /\ pc = "off"
    /\ session_id = ""
    /\ history = << >>
    /\ messages = << >>
    /\ current_response = NoResponse
    /\ loop_count = 0
    /\ tool_idx = 0
    /\ depth = 0
    /\ selected = NoFile
    /\ executed = << >>
    /\ calls = << >>
    /\ turn_start = 0
    /\ error = ""

ResumeSpec == ResumeInit /\ [][Next]_vars

-----------------------------------------------------------------------------
(* The components on their own.  pc = "execute": ToolRegistry.execute runs  *)
(* one tool call, drawn from the tool names (and a name that is not        *)
(* registered) and the payloads below, against a workspace.                *)
(* pc = "provider_chat": LLMProvider.chat runs against a backend whose     *)
(* answers to the successive attempts are drawn as `script`; loop_count is *)
(* the loop variable `attempt`, calls logs the requests to the backend,    *)
(* clock advances by what asyncio.sleep waits, error is str(last_error).   *)
(* pc = "sync_check": each of the two _build_sync_prompt is run on a       *)
(* workspace of drafts, chapter memories and a story summary; the prompt   *)
(* is left in messages.  pc = "parse": ToolRegistry.parse_arguments runs   *)
(* on the text of a tool call; calls logs the stages it enters and the     *)
(* dict it returns is left as the one element of messages.                 *)

\* the argument texts a tool call is drawn from: well-formed JSON (plain,
\* with the escapes \/ \n \"), a value holding a literal newline, or a
\* literal tab and carriage return, alone and next to an escape, a text cut
\* off inside a string, a text without its closing brace, quotes that are
\* not escaped inside a value, an object without values and text that is
\* no JSON at all
ArgumentTexts ==
    { "{\"filename\": \"a.md\", \"content\": \"x\"}",
      "{\"filename\": \"d\\/a.md\", \"content\": \"x\"}",
      "{\"content\": \"a\\nb \\\"c\\\"\"}",
      "{\"filename\": \"a.md\", \"content\": \"line1\nline2\"}",
      "{\"filename\": \"a.md\", \"content\": \"a\tb\rc\"}",
      "{\"filename\": \"d\\/a.md\", \"content\": \"line1\nline2\"}",
      "{\"filename\": \"a.md\", \"content\": \"x",
      "{\"filename\": \"a.md\", \"content\": \"x\"",
      "{\"filename\": \"a.md\", \"content\": \"say \"hi\" now\"}",
      "{}",
      "not json" }

\* the argument payloads a tool call is drawn from
Payloads ==
    { NoneArgs, NonObject("array"), NonObject("scalar"), NonObject("malformed"),
      Json(<< >>),
      Json([filename |-> DraftFile]),
      Json([filename |-> DraftFile, content |-> ""]),
      JsonWithNulls([filename |-> DraftFile], { "content" }),
      Json([filename |-> DraftFile, content |-> PlainText]),
      Json([content |-> PlainText]),
      Json([chapter_title |-> ChapterTitle, memory_summary |-> PlainText]) }
        \cup { RawText(t) : t \in ArgumentTexts }

\* the tool call under execution
TheCall == current_response.tool_calls[1]

\* how the backend answers one attempt: a response, APIError / RateLimitError,
\* an exception whose text mentions JSON or parsing, or any other exception
Outcomes == { "ok", "api_error", "parse_error", "other_error" }

\* the workspaces the sync check is run on: drafts named as write_file's
\* descriptor instructs or by number alone, memories saved by
\* save_chapter_memory under the titles below, and a summary ("": no file)
SyncWorkspaces ==
    { [f \in D \cup M \cup (IF summary = "" THEN {} ELSE { "STORY_SUMMARY.md" })
         |-> IF f = "STORY_SUMMARY.md" THEN summary ELSE PlainText] :
        D \in SUBSET { DraftFile, "drafts/chapter_02_Road.md", "drafts/chapter_03.md" },
        M \in SUBSET { ChapterMemoryPath(t) :
                         t \in { ChapterTitle, "chapter_01", "chapter_02",
                                 "chapter_03", "chapter_04" } },
        summary \in { "", "Chapter 1: the start.", "Up to chapter 2 and Chapter 03.",
                      "An outline without numbers." } }

UnitInit ==
    /\ clock = 0
    /\ sessions = << >>
    /\ llm = "free"
    /\ events = 0
    /\ proc = "none"
    /\ pc \in { "execute", "parse", "provider_chat", "sync_check" }
    /\ IF pc \in { "execute", "parse" }
       THEN /\ docs \in IF pc = "parse" THEN { << >> }
                        ELSE { << >>, [f \in { DraftFile } |-> UserText] }
            /\ script = << >>
            /\ \E name \in ToolNames \cup { "delete_file" },
                  raw \in IF pc = "parse" THEN { RawText(t) : t \in ArgumentTexts }
                          ELSE Payloads :
                  current_response =
                      [tool_calls |-> WithIds(<< [name |-> name, arguments |-> raw] >>, 0),
                       content |-> ""]
            /\ tool_idx = 1
       ELSE IF pc = "provider_chat"
       THEN /\ docs = << >>
            /\ script \in [1..max_retries -> Outcomes]
            /\ current_response = NoResponse
            /\ tool_idx = 0
       ELSE /\ docs \in SyncWorkspaces
            /\ script = << >>
            /\ current_response = NoResponse
            /\ tool_idx = 0
    /\ session_id = ""
    /\ history = << >>
    /\ messages = << >>
    /\ loop_count = 0
    /\ depth = 0
    /\ selected = NoFile
    /\ executed = << >>
    /\ calls = << >>
    /\ turn_start = 0
    /\ error = ""

\* result = await self.tools.execute(tool_call), then the tool message
ExecuteReturns ==
    /\ pc = "execute"
    /\ LET res == Execute(TheCall, docs)
       IN  /\ ~res.raised
           /\ docs' = res.docs
           /\ messages' = Append(messages, ToolMsg(TheCall, res.result))
    /\ executed' = Append(executed, TheCall.id)
    /\ pc' = "returned"
    /\ UNCHANGED << error, clock, sessions, llm, events, script, proc, session_id, history,
                    current_response, loop_count, tool_idx, depth, selected, calls,
                    turn_start >>

\* args = self.parse_arguments(raw_args, tool_name=name) returns
ParseReturns ==
    /\ pc = "parse"
    /\ LET parsed == ParseArguments(TheCall.function.arguments.text, TheCall.function.name)
       IN  /\ parsed.ok
           /\ calls' = parsed.stages
           /\ messages' = << parsed.value >>
    /\ pc' = "parsed"
    /\ UNCHANGED << error, clock, sessions, docs, llm, events, script, proc, session_id,
                    history, current_response, loop_count, tool_idx, depth, selected,
                    executed, turn_start >>

\* parse_arguments raises ValueError
ParseRaises ==
    /\ pc = "parse"
    /\ LET parsed == ParseArguments(TheCall.function.arguments.text, TheCall.function.name)
       IN  /\ ~parsed.ok
           /\ calls' = parsed.stages
    /\ pc' = "parse_raised"
    /\ UNCHANGED << error, clock, sessions, docs, llm, events, script, proc, session_id,
                    history, messages, current_response, loop_count, tool_idx, depth,
                    selected, executed, turn_start >>

\* execute raises to its caller
ExecuteRaises ==
    /\ pc = "execute"
    /\ Execute(TheCall, docs).raised
    /\ executed' = Append(executed, TheCall.id)
    /\ pc' = "raised"
    /\ UNCHANGED << error, clock, sessions, docs, llm, events, script, proc, session_id,
                    history, messages, current_response, loop_count, tool_idx, depth,
                    selected, calls, turn_start >>

\* the two except clauses that retry
Transient(outcome) == outcome \in { "api_error", "parse_error" }

\* a wait that does not grow
WaitTimeFixed(attempt) == retry_delay

\* wait_time = self.retry_delay * (2 ** attempt)
WaitTime(attempt) == retry_delay * (2 ^ attempt)

\* one iteration of `for attempt in range(self.max_retries)` up to its await
\* of asyncio.sleep, its return or its raise; after the last iteration,
\* `raise last_error`
ProviderAttempt ==
    /\ pc = "provider_chat"
    /\ loop_count < max_retries
    /\ calls' = Append(calls, "create")
    /\ LET outcome == script[loop_count + 1]
           e == outcome \o " " \o ToString(loop_count + 1)
       IN  IF outcome = "ok"
           THEN /\ current_response' =
                      [tool_calls |-> << >>,
                       content |-> "response " \o ToString(loop_count + 1)]
                /\ pc' = "chat_returned"
                /\ UNCHANGED error
           ELSE /\ error' = e
                /\ pc' = IF Transient(outcome) /\ loop_count < max_retries - 1
                         THEN "provider_sleep" ELSE "chat_raised"
                /\ UNCHANGED current_response
    /\ UNCHANGED << clock, sessions, docs, llm, events, script, proc, session_id,
                    history, messages, loop_count, tool_idx, depth, selected, executed,
                    turn_start >>

\* await asyncio.sleep(wait_time), and the next iteration
ProviderSleeps ==
    /\ pc = "provider_sleep"
    /\ clock' = clock + WaitTime(loop_count)
    /\ loop_count' = loop_count + 1
    /\ pc' = "provider_chat"
    /\ UNCHANGED << sessions, docs, llm, events, script, proc, session_id, history,
                    messages, current_response, tool_idx, depth, selected, executed,
                    calls, turn_start, error >>

\* "\n".join(prompt_parts)
RECURSIVE JoinLines(_)
JoinLines(parts) ==
    IF parts = << >> THEN ""
    ELSE IF Len(parts) = 1 THEN parts[1]
    ELSE parts[1] \o "\n" \o JoinLines(Tail(parts))

\* sync_prompt = self._build_sync_prompt() of AgentLoop._run_sync
BuildAgentSyncPrompt ==
    /\ pc = "sync_check"
    /\ messages' = << SystemMsg(JoinLines(<< SyncPrompt(docs) >> \o AgentSyncParts(docs))) >>
    /\ pc' = "agent_prompt"
    /\ UNCHANGED << clock, sessions, docs, llm, events, script, proc, session_id,
                    history, current_response, loop_count, tool_idx, depth, selected,
                    executed, calls, turn_start, error >>

\* sync_prompt = self._build_sync_prompt() of SyncRunner.run
BuildRunnerSyncPrompt ==
    /\ pc = "sync_check"
    /\ messages' = << SystemMsg(JoinLines(<< SyncPrompt(docs) >> \o RunnerSyncParts(docs))) >>
    /\ pc' = "runner_prompt"
    /\ UNCHANGED << clock, sessions, docs, llm, events, script, proc, session_id,
                    history, current_response, loop_count, tool_idx, depth, selected,
                    executed, calls, turn_start, error >>

UnitNext ==
    \/ ExecuteReturns \/ ExecuteRaises
    \/ ParseReturns \/ ParseRaises
    \/ ProviderAttempt \/ ProviderSleeps
    \/ BuildAgentSyncPrompt \/ BuildRunnerSyncPrompt

UnitSpec == UnitInit /\ [][UnitNext]_vars

-----------------------------------------------------------------------------
(* Properties.                                                             *)

\* the ids of the tool calls of a response or an assistant message
CallIds(msg) == [i \in 1..Len(msg.tool_calls) |-> msg.tool_calls[i].id]

\* the positions before i of the assistant messages that hold the call which
\* the tool message ms[i] answers
CallersOf(ms, i) ==
    { j \in 1..(i - 1) : HasToolCalls(ms[j]) /\ ms[i].tool_call_id \in Range(CallIds(ms[j])) }

\* the positions of history whose entries the context window holds
Window(h) == Range(LastN(KeptIdx(h), MAX_CONTEXT_MESSAGES))

\* how often the controller has called the model at `site` in this turn
CallsAt(site) == Cardinality({ i \in 1..Len(calls) : calls[i] = site })

\* the history that the session record of this controller holds
Persisted ==
    IF SessionFileName(session_id) \in DOMAIN sessions
    THEN LoadedHistory(sessions[SessionFileName(session_id)].json)
    ELSE << >>

\* C1: in every context window that _build_context_messages produces, the
\* entry of a tool-result message is present if and only if the entry of the
\* assistant tool-call message it answers is present.
WindowKeepsCallAndResultTogether ==
    (proc = "agent" /\ pc \in { "chat_first", "chat_retry" }) =>
        \A i \in 1..Len(history) :
            Role(history[i]) = "tool" =>
                \A j \in CallersOf(history, i) :
                    (i \in Window(history)) <=> (j \in Window(history))

\* the rounds, calls and executions of a turn in which every response
\* requests a tool call
ToolLoopInv ==
    (llm = "tools_always" /\ proc = "agent") =>
        /\ loop_count <= MAX_LOOPS
        /\ CallsAt("first") + CallsAt("follow") <= 1 + MAX_LOOPS
        /\ CallsAt("forced") <= 1
        /\ pc = "tool_final" => loop_count = MAX_LOOPS /\ CallsAt("follow") = MAX_LOOPS
        /\ pc = "chat_forced" =>
               /\ loop_count = MAX_LOOPS
               /\ CallsAt("follow") = MAX_LOOPS
               /\ executed = CallIds(current_response)
               /\ Len(SelectSeq(history, HasToolCalls)) - Len(SelectSeq(SubSeq(history, 1, turn_start), HasToolCalls))
                      = MAX_LOOPS + 1
        /\ (CallsAt("forced") = 1) => calls[1 + MAX_LOOPS + 1] = "forced"

\* C2: when every response of the model requests a tool call, process_turn
\* ends the tool loop after MAX_LOOPS rounds, executes the pending batch
\* exactly once more, makes its next call with tools=None, and the turn ends.
ToolLoopEndsInForcedCall ==
    /\ []ToolLoopInv
    /\ (llm = "tools_always" /\ pc = "chat_first") ~> (pc = "chat_forced")
    /\ (pc = "chat_forced") ~> (pc = "input")

\* the controller is about to make the forced call of such a turn
ForcedCallReached ==
    llm = "tools_always" /\ pc = "chat_forced" /\ CallsAt("forced") = 0

\* C3: when the final text of a turn matches the fake-tool-call pattern the
\* controller retries the model call exactly once; it makes no further call
\* in the turn even if the retried response matches again.
AtMostOneRetry == proc = "agent" => CallsAt("retry") <= 1

\* C4: at every model call and every tool execution of AgentLoop the history
\* in the session record equals the history in memory.
SavedBeforeEveryCall ==
    (proc = "agent" /\ pc \in { "chat_first", "chat_follow", "chat_forced",
                                "chat_retry", "tool_loop", "tool_final" }) =>
        Persisted = history

\* C5: the AgentLoop history is append-only: the history before any step of
\* a running controller is a prefix of the history after it.
HistoryAppendOnly ==
    [][(proc = "agent" /\ proc' = "agent") => IsPrefix(history, history')]_vars

\* the prompt after a turn that failed once its tool round was in history,
\* in a history longer than the context window
FailedTurnKept ==
    /\ proc = "agent"
    /\ pc = "input"
    /\ Len(history) > MAX_CONTEXT_MESSAGES
    /\ Role(history[Len(history)]) = "tool"

\* the session records that are not auxiliary (their id does not end in _sync)
OrdinaryFiles ==
    { f \in DOMAIN sessions : ~IsSyncId(LoadedSessionId(sessions[f].json, "")) }

\* C6: a controller constructed with no explicit session id, over a sessions
\* directory that mixes ordinary and auxiliary (_sync) records, loads the most
\* recently modified ordinary record.
LoadsLatestOrdinaryRecord ==
    proc = "agent" =>
        /\ selected \in OrdinaryFiles
        /\ \A g \in OrdinaryFiles : sessions[g].mtime <= sessions[selected].mtime

\* C7: a controller that selects a record written by _save_session has the
\* saved history and the saved session id, so it saves to the same record,
\* and after a save the record holds the history in memory.
SessionRoundTrip ==
    proc = "agent" =>
        /\ selected # NoFile => SessionFileName(session_id) = selected
        /\ (pc = "input" /\ SessionFileName(session_id) \in DOMAIN sessions) =>
               /\ Persisted = history
               /\ LoadedSessionId(sessions[SessionFileName(session_id)].json, "") = session_id

\* a controller that resumed a record holding a tool round, a call without
\* payload among its calls
ResumedToolRound ==
    /\ proc = "agent"
    /\ pc = "input"
    /\ selected # NoFile
    /\ \E i \in 1..Len(history) :
         /\ HasToolCalls(history[i])
         /\ \E k \in 1..Len(history[i].tool_calls) :
              history[i].tool_calls[k].function.arguments = NoneArgs

\* the tool_call_ids of the tool messages that follow the last tool-call
\* message of h
RoundResultIds(h) ==
    LET callers == { j \in 1..Len(h) : HasToolCalls(h[j]) }
        start == IF callers = {} THEN Len(h)
                 ELSE CHOOSE j \in callers : \A k \in callers : k <= j
        results == SelectSeq(SubSeq(h, start + 1, Len(h)), LAMBDA m : Role(m) = "tool")
    IN  [i \in 1..Len(results) |-> results[i].tool_call_id]

\* C8: in every tool round of process_turn the calls are executed one after
\* another in the order of the response, and the tool messages of the round
\* are one per call, in that order, each with the id of its call; a call is
\* executed only when the results of all calls before it are in history.
ToolsRunInOrder ==
    (proc = "agent" /\ pc \in { "tool_loop", "tool_final", "chat_follow", "chat_forced" }) =>
        /\ IsPrefix(executed, CallIds(current_response))
        /\ RoundResultIds(history) = executed
        /\ pc \in { "tool_loop", "tool_final" } => Len(executed) = tool_idx - 1
        /\ pc \in { "chat_follow", "chat_forced" } => executed = CallIds(current_response)

\* a round of three calls has been executed
ThreeCallsExecuted ==
    proc = "agent" /\ pc = "chat_follow" /\ Len(executed) = 3

\* every tool message of ms follows exactly one assistant message that holds
\* its call, and every call of ms has a tool message
Paired(ms) ==
    /\ \A i \in 1..Len(ms) :
         Role(ms[i]) = "tool" => Cardinality(CallersOf(ms, i)) = 1
    /\ \A j \in 1..Len(ms) :
         HasToolCalls(ms[j]) =>
             \A k \in 1..Len(ms[j].tool_calls) :
                 \E i \in 1..Len(ms) :
                     Role(ms[i]) = "tool" /\ ms[i].tool_call_id = ms[j].tool_calls[k].id

\* C9: in every message list passed to the model (by process_turn,
\* _handle_final_response, _run_sync and SyncRunner._process_turn) each tool
\* message follows exactly one assistant message holding a tool call with its
\* id, and every tool call in the list has its tool message in the list.
CallsSentArePaired ==
    /\ (proc = "agent" /\ pc \in { "chat_first", "chat_follow", "chat_forced",
                                   "chat_retry", "sync_chat", "sync_follow" }) =>
           Paired(messages)
    /\ (proc = "sync" /\ pc = "srun_chat") => Paired(history)

\* the sync runner is about to send a history with a round of two calls, and
\* so is the controller with two rounds in its list
RoundsAboutToBeSent ==
    \/ /\ proc = "sync"
       /\ pc = "srun_chat"
       /\ Len(SelectSeq(history, LAMBDA m : Role(m) = "tool")) >= 2
    \/ /\ proc = "agent"
       /\ pc = "chat_follow"
       /\ Len(SelectSeq(messages, HasToolCalls)) >= 2

\* the tool messages among history[-10:] that report a write_file call
\* without content
RecentMissingContent ==
    Cardinality({ i \in 1..Len(LastN(history, ErrorWindow)) :
                    /\ Role(LastN(history, ErrorWindow)[i]) = "tool"
                    /\ LastN(history, ErrorWindow)[i].content = ErrWriteFileNoContent })

\* C10: when write_file has been called without content so often that the
\* error occurs at least ErrorThreshold times among the last ErrorWindow
\* messages of history, the corrective system message is in the context and
\* in history before the next model call.
MissingContentIsCorrected ==
    (proc = "agent" /\ pc = "chat_follow" /\ RecentMissingContent >= ErrorThreshold) =>
        /\ MissingContentCorrection \in Range(messages)
        /\ MissingContentCorrection \in Range(SubSeq(history, turn_start + 1, Len(history)))

-----------------------------------------------------------------------------
\* the call under execution is write_file with a filename and no content:
\* the key content is absent, null or the empty string
OnlyFilenameSet ==
    LET raw == TheCall.function.arguments
    IN  /\ TheCall.function.name = "write_file"
        /\ raw.form = "json"
        /\ "filename" \in DOMAIN raw.args /\ raw.args.filename # ""
        /\ \/ "content" \notin DOMAIN raw.args \cup NullKeys(raw)
           \/ "content" \in NullKeys(raw)
           \/ ("content" \in DOMAIN raw.args /\ raw.args.content = "")

\* C11: executing write_file with only the filename set (content absent,
\* null or empty) returns a result that carries the hint about the content
\* parameter, does not invoke the write, and leaves every document unchanged.
WriteFileWithoutContentIsRefused ==
    [][(pc = "execute" /\ OnlyFilenameSet)
         => /\ pc' = "returned"
            /\ Contains(messages'[Len(messages')].content, "without the 'content' parameter")
            /\ docs' = docs]_vars

\* a write_file call whose content is null has returned, and the draft it
\* names does not exist
NullContentRefused ==
    /\ pc = "returned"
    /\ OnlyFilenameSet
    /\ "content" \in NullKeys(TheCall.function.arguments)
    /\ DraftFile \notin DOMAIN docs

\* C12: execute never raises: for every tool name and every raw payload it
\* returns a string.
ExecuteNeverRaises == pc # "raised"

\* C13: a tool execution failure never aborts a user turn: every execution
\* of a call of a round appends a tool message, and the controller goes on
\* to the next call of the round or to the next Completion Client call.
ToolFailureNeverAbortsTurn ==
    [][(proc = "agent" /\ pc \in { "tool_loop", "tool_final" })
         => /\ Len(history') > Len(history)
            /\ Role(history'[Len(history')]) = "tool"
            /\ pc' \in { pc, IF pc = "tool_loop" THEN "chat_follow" ELSE "chat_forced" }]_vars

\* C14: when the Completion Client raises during a turn, at whichever call,
\* the turn is abandoned without rollback: history is what it was when the
\* call was made, and the controller returns to the prompt with that history.
TurnAbandonedWithoutRollback ==
    [][/\ (proc = "agent" /\ error = "" /\ error' = ErrTurn(ChatFailure))
           => (history' = history /\ pc' = "turn_done")
       /\ (proc = "agent" /\ pc = "turn_done")
           => (history' = history /\ pc' = "input")]_vars

\* the forced final call of a turn has raised, after eleven tool rounds
ForcedCallFailed ==
    /\ proc = "agent"
    /\ pc = "turn_done"
    /\ error = ErrTurn(ChatFailure)
    /\ calls # << >> /\ calls[Len(calls)] = "forced"
    /\ Len(history) - turn_start > 2 * MAX_LOOPS

\* C15: whenever a turn-level error has been reported to the user, the
\* Session Record already holds the current History.
ErrorSurfacedAfterSave == (proc = "agent" /\ error # "") => Persisted = history

\* C16: LLMProvider.chat makes at most 3 backend attempts per call; it
\* returns the first successful response; between attempts that fail with a
\* transient error it waits 2 s, then 4 s, and does not wait after the last
\* attempt; after 3 transient failures it raises the last error.
ProviderRetriesWithBackoff ==
    pc \in { "provider_chat", "provider_sleep", "chat_returned", "chat_raised" } =>
        LET n == Len(calls)
        IN  /\ n <= max_retries
            /\ \A i \in 1..(n - 1) : Transient(script[i])
            /\ clock = IF loop_count = 0 THEN 0 ELSE IF loop_count = 1 THEN 2 ELSE 6
            /\ pc = "provider_sleep" => (n = loop_count + 1 /\ n < max_retries)
            /\ pc = "chat_returned"
                 => /\ script[n] = "ok"
                    /\ current_response.content = "response " \o ToString(n)
            /\ pc = "chat_raised"
                 => /\ script[n] # "ok"
                    /\ error = script[n] \o " " \o ToString(n)
                    /\ Transient(script[n]) => n = max_retries

\* three transient failures in a row: the third error has been raised after
\* waits of 2 s and 4 s
ThirdFailureRaised ==
    /\ pc = "chat_raised"
    /\ Len(calls) = max_retries
    /\ \A i \in 1..max_retries : Transient(script[i])
    /\ clock = 6

\* the chapter numbers the files of a directory carry, for names in the
\* form of the drafts ("chapter_NN...") and in the form save_chapter_memory
\* gives a title "Chapter NN: ..." ("Chapter_NN...")
ChaptersOf(d, dir) ==
    UNION { ChapterNum(n) \cup (IF StartsWith(n, "Chapter_")
                                THEN ChapterNum("c" \o SubSeq(n, 2, Len(n)))
                                ELSE {}) : n \in Glob(d, dir, "") }

\* the prompt names exactly the chapters nums between the words before and
\* after, and has no such line when there are none
Reports(prompt, before, after, nums) ==
    IF nums = {} THEN ~Contains(prompt, before)
    ELSE Contains(prompt, before \o PyList(nums) \o after)

\* C17: for the chapter numbers D among the draft files and M among the
\* chapter-memory files, the sync check reports exactly D \ M as chapters
\* missing a memory and exactly M \ D as orphaned memories.
SyncReportsSetDifferences ==
    LET D == ChaptersOf(docs, "drafts/")
        M == ChaptersOf(docs, "memory/chapters/")
        prompt == messages[1].content
    IN  /\ pc = "agent_prompt"
             => /\ Reports(prompt, "**MISSING CHAPTER MEMORIES**: Chapters ",
                           " have drafts but no memory summaries.", D \ M)
                /\ Reports(prompt, "**ORPHAN MEMORIES**: Chapters ",
                           " have memories but no draft files.", M \ D)
        /\ pc = "runner_prompt"
             => /\ Reports(prompt, "Found drafts without memories: ", "\n", D \ M)
                /\ Reports(prompt, "Found memories without drafts: ", "\n", M \ D)

\* C18: the sync prompt, built by AgentLoop or by SyncRunner, reports the
\* summary as outdated exactly when the highest chapter number referenced
\* in STORY_SUMMARY.md is lower than the latest draft chapter number.
OutdatedSummaryReported ==
    pc \in { "agent_prompt", "runner_prompt" }
      => (Contains(messages[1].content, "OUTDATED")
            <=> SummaryChapter(Read(docs, "STORY_SUMMARY.md")) < MaxOr0(DraftNums(docs)))

\* in a sync turn of SyncRunner: at most MaxDepth calls have been made, the
\* batches executed are no more than the calls, and at depth MaxDepth
\* _process_turn has returned to the prompt
SyncTurnInv ==
    proc = "sync"
      => /\ CallsAt("srun") <= MaxDepth
         /\ depth <= CallsAt("srun")
         /\ depth = MaxDepth => pc = "srun_input"

\* C19: for any model behaviour, one sync turn of SyncRunner makes at most
\* 10 Completion Client calls and executes at most 10 tool batches, then
\* stops without a further call, and the turn terminates.
SyncTurnIsBounded ==
    /\ []SyncTurnInv
    /\ (proc = "sync" /\ pc = "srun_chat") ~> (pc = "srun_input" \/ proc = "none")

\* a sync turn has stopped at the depth limit after ten calls and ten batches
SyncTurnStoppedAtLimit ==
    /\ proc = "sync"
    /\ pc = "srun_input"
    /\ depth = MaxDepth
    /\ CallsAt("srun") = MaxDepth
    /\ Len(history) = 1 + 2 * MaxDepth

\* process_turn is over for a turn whose first response requested
\* write_file and memorize_chapter_event and whose second response was the
\* plain text
SaveTurnOver ==
    /\ proc = "agent"
    /\ pc = "turn_done"
    /\ error = ""
    /\ calls = << "first", "follow" >>
    /\ current_response = [tool_calls |-> << >>, content |-> PlainText]
    /\ Len(history) >= turn_start + 2
    /\ ToolCallNames(history[turn_start + 2]) = << "write_file", "memorize_chapter_event" >>

\* C20: in a turn in which the model first requests write_file and
\* memorize_chapter_event (both succeed) and then replies with plain text,
\* history gains exactly the user message, one assistant tool-call message,
\* the two tool results in call order, and one assistant text message.
SaveTurnAppendsFiveMessages ==
    SaveTurnOver =>
        LET request == [tool_calls |-> WithIds(SaveBatch, turn_start + 2), content |-> ""]
        IN  SubSeq(history, turn_start + 1, Len(history))
              = << UserMsg(UserText),
                   ToolCallMsg(request),
                   ToolMsg(request.tool_calls[1],
                           "File " \o DraftFile \o " written successfully."),
                   ToolMsg(request.tool_calls[2],
                           "Chapter memory for '" \o ChapterTitle \o "' saved successfully."),
                   AssistantMsg(PlainText) >>

\* such a turn is over, in a session that held earlier turns, and the draft
\* and the chapter memory are in the workspace
SaveTurnCompleted ==
    /\ SaveTurnOver
    /\ turn_start > 0
    /\ Len(history) = turn_start + 5
    /\ { DraftFile, ChapterMemoryPath(ChapterTitle) } \subseteq DOMAIN docs

DescriptorRequiredIsEnforced ==
    [][LET name == TheCall.function.name
           raw == TheCall.function.arguments
       IN  (/\ pc = "execute"
            /\ name \in ToolNames
            /\ raw.form = "json"
            /\ \E p \in DescriptorRequired(name) :
                  \/ p \notin DOMAIN raw.args
                  \/ p \in NullKeys(raw)
                  \/ raw.args[p] = "")
           => /\ pc' = "returned"
              /\ StartsWith(messages'[Len(messages')].content, "Error:")
              /\ Contains(messages'[Len(messages')].content, "parameter")
              /\ docs' = docs]_vars

\* the text under parse_arguments
TheText == TheCall.function.arguments.text

\* C23: the repair is a no-op on well-formed input: when the text of the
\* arguments is valid JSON, parse_arguments returns what json.loads yields
\* for it, and neither the repair pass nor the fallback extractor is entered.
ValidJsonIsParsedDirectly ==
    (pc \in { "parsed", "parse_raised" } /\ JsonLoads(TheText).ok) =>
        /\ pc = "parsed"
        /\ calls = << "direct" >>
        /\ messages = << JsonLoads(TheText).value >>

\* valid JSON the repair pass would alter (the escape \/) has been parsed
EscapedSlashParsed ==
    /\ pc = "parsed"
    /\ TheText = "{\"filename\": \"d\\/a.md\", \"content\": \"x\"}"
    /\ messages = << [filename |-> "d/a.md", content |-> "x"] >>
    /\ calls = << "direct" >>

\* the stretch s[lo..hi] with every literal newline, carriage return and
\* tab written as its JSON escape
RECURSIVE EscapeControls(_, _, _)
EscapeControls(s, lo, hi) ==
    IF lo > hi THEN ""
    ELSE IF lo < hi
    THEN CHOOSE text \in { EscapeControls(s, lo, mid) \o EscapeControls(s, mid + 1, hi) :
                             mid \in { (lo + hi) \div 2 } } : TRUE
    ELSE CASE Ch(s, lo) = "\n" -> "\\n"
           [] Ch(s, lo) = "\r" -> "\\r"
           [] Ch(s, lo) = "\t" -> "\\t"
           [] OTHER -> Ch(s, lo)

\* C24: a text that is well-formed JSON but for literal newline, carriage
\* return or tab characters inside a string value is parsed, and the dict
\* returned is the one the text denotes: those characters in that value,
\* every other key and value as written.
LiteralControlsAreRepaired ==
    (/\ pc \in { "parsed", "parse_raised" }
     /\ ~JsonLoads(TheText).ok
     /\ JsonLoads(EscapeControls(TheText, 1, Len(TheText))).ok) =>
        /\ pc = "parsed"
        /\ messages = << JsonLoads(EscapeControls(TheText, 1, Len(TheText))).value >>

\* none of the three stages turns the text into a dict
AllStagesFail(text, name) ==
    /\ ~JsonLoads(text).ok
    /\ ~JsonLoads(Repair(text)).ok
    /\ ExtractTextToolArguments(text, name) = {}

\* C25: the stages of parse_arguments are entered in the order direct
\* parse, repair pass, fallback extractor, each only after the one before
\* it failed, and it raises exactly when all three fail; execute then
\* returns the invalid-arguments error string to the loop (which appends it
\* as the tool message), the tool is not invoked and the workspace is as
\* it was.
StagesInOrderThenErrorResult ==
    [][/\ pc = "parse" =>
            /\ calls' # << >>
            /\ IsPrefix(calls', << "direct", "repair", "extract" >>)
            /\ Len(calls') >= 2 => ~JsonLoads(TheText).ok
            /\ Len(calls') = 3 => ~JsonLoads(Repair(TheText)).ok
            /\ pc' = "parse_raised" <=> AllStagesFail(TheText, TheCall.function.name)
       /\ (/\ pc = "execute"
           /\ TheCall.function.arguments.form = "text"
           /\ AllStagesFail(TheText, TheCall.function.name)) =>
            /\ pc' = "returned"
            /\ messages' = << ToolMsg(TheCall, ErrInvalidArguments) >>
            /\ docs' = docs]_vars

\* write_file was called with a text no stage parses, and execute returned
UnparsedWriteReturned ==
    /\ pc = "returned"
    /\ TheCall.function.name = "write_file"
    /\ TheCall.function.arguments.form = "text"
    /\ AllStagesFail(TheText, "write_file")
    /\ messages = << ToolMsg(TheCall, ErrInvalidArguments) >>
    /\ docs = [f \in { DraftFile } |-> UserText]

\* by how much a log grows in a step (0 when it is reset)
Growth(before, after) == IF Len(after) > Len(before) THEN Len(after) - Len(before) ELSE 0

\* C26: in AgentLoop a user input is read (a user message, sync, or exit)
\* only at the prompt, where nothing of a turn is pending: no reply is
\* awaiting its tool rounds or its retry; and no step makes more than one
\* Completion Client call or tool execution.
InputOnlyBetweenTurns ==
    [][proc = "agent" =>
         /\ (/\ Len(history') = Len(history) + 1
             /\ Role(history'[Len(history')]) = "user") => pc = "input"
         /\ (pc' = "sync_chat" /\ messages' # messages /\ Len(messages') = 1) => pc = "input"
         /\ proc' = "none" => pc = "input"
         /\ pc = "input" =>
               (messages = << >> /\ current_response = NoResponse /\ script = << >>
                /\ calls = << >> /\ executed = << >>)
         /\ Growth(calls, calls') + Growth(executed, executed') <= 1]_vars

\* the next message is read after a turn with a tool round has finished
SecondTurnAfterToolRound ==
    /\ proc = "agent"
    /\ pc = "chat_first"
    /\ \E i \in 1..turn_start : Role(history[i]) = "tool"
    /\ Role(history[turn_start]) = "assistant"

\* C27: whenever the loop is left from its prompt (exit, quit, or an
\* interrupt while waiting for input), the Session Record of the session
\* holds the current History at that moment, written by that step, and the
\* step makes no call, runs no tool and appends nothing to History.
LeavingSavesCurrentHistory ==
    [][(pc \in { "input", "srun_input" } /\ proc' = "none") =>
         /\ sessions' = SaveSession(sessions, session_id, history, clock)
         /\ docs' = docs
         /\ calls' = << >> /\ executed' = << >>]_vars

PlaceholderFollowsItsCall ==
    (proc = "agent" /\ pc = "chat_first") =>
        LET kept == KeptIdx(history)
            shown == IF Len(kept) < MAX_CONTEXT_MESSAGES THEN Len(kept)
                     ELSE MAX_CONTEXT_MESSAGES
        IN  \A k \in 1..shown :
              LET i == kept[Len(kept) - shown + k]
                  entry == messages[Len(messages) - shown + k]
              IN  Role(history[i]) = "tool" =>
                    \A j \in CallersOf(history, i) :
                       IF IsContentTool(history[j])
                       THEN entry.content \in { "[write_file failed]",
                                                "[write_file completed successfully]" }
                       ELSE entry.content \in { "[Tool error occurred]",
                                                "[Tool executed successfully]" }

\* C30: the correction fires on the second missing-content error: as soon
\* as ErrorThreshold tool messages with that error, the one just appended
\* included, lie within the last ErrorWindow messages of history, the
\* corrective system message has been appended in this turn.
CorrectionFiresOnSecondError ==
    (/\ proc = "agent"
     /\ pc \in { "tool_loop", "chat_follow" }
     /\ RecentErrors(history) >= ErrorThreshold) =>
        MissingContentCorrection \in Range(SubSeq(history, turn_start + 1, Len(history)))

\* every tool message of ms that answers a call of the assistant message
\* ms[j] is reached from ms[j] through tool messages alone
Contiguous(ms) ==
    \A j \in 1..Len(ms) :
        HasToolCalls(ms[j]) =>
            \A i \in (j + 1)..Len(ms) :
                (Role(ms[i]) = "tool" /\ ms[i].tool_call_id \in Range(CallIds(ms[j]))) =>
                    \A k \in (j + 1)..i : Role(ms[k]) = "tool"

\* C31: in every message list sent to the model, the tool messages that
\* answer an assistant tool-call message follow it with nothing but tool
\* messages in between: no system, user or assistant message (no injected
\* correction) lies between the tool-call message and the last of its results.
ResultsFollowTheirCall ==
    /\ (proc = "agent" /\ pc \in { "chat_first", "chat_follow", "chat_forced",
                                   "chat_retry", "sync_chat", "sync_follow" }) =>
           Contiguous(messages)
    /\ (proc = "sync" /\ pc = "srun_chat") => Contiguous(history)

\* the tool messages the turn has appended to History for the call id
AnswersTo(id) ==
    { i \in (turn_start + 1)..Len(history) :
        Role(history[i]) = "tool" /\ history[i].tool_call_id = id }

\* C32: when a user turn of AgentLoop ends without an exception, every tool
\* call of every response received in it (the last one, from the forced call
\* or the corrective retry, included) has been answered by exactly one tool
\* message in History: no response's tool calls are dropped.
EveryResponseCallIsAnswered ==
    (proc = "agent" /\ pc = "turn_done" /\ error = "") =>
        /\ \A k \in 1..Len(current_response.tool_calls) :
               Cardinality(AnswersTo(current_response.tool_calls[k].id)) = 1
        /\ \A j \in (turn_start + 1)..Len(history) :
               HasToolCalls(history[j]) =>
                   \A k \in 1..Len(history[j].tool_calls) :
                       Cardinality(AnswersTo(history[j].tool_calls[k].id)) = 1

\* C33: the in-loop sync command records nothing: from the prompt where
\* "sync" is read to the prompt it returns to, whatever the model replies or
\* raises, History, session_id and the session records stay as they are
\* (the documents may change); it makes its first call, runs the calls of
\* that one response in order, makes its follow-up call and returns, so at
\* most two calls of the Completion Client and one tool batch.
SyncCommandRecordsNothing ==
    [][(proc = "agent"
        /\ (pc \in { "sync_chat", "sync_tools", "sync_follow" } \/ pc' = "sync_chat")) =>
           /\ history' = history
           /\ session_id' = session_id
           /\ sessions' = sessions
           /\ proc' = "agent"
           /\ pc = "input" => pc' = "sync_chat"
           /\ pc = "sync_chat" => pc' \in { "sync_tools", "input" }
           /\ pc = "sync_tools" =>
                \/ pc' = "input"
                \/ /\ current_response' = current_response
                   /\ \/ pc' = "sync_tools" /\ tool_idx' = tool_idx + 1
                      \/ pc' = "sync_follow"
                            /\ tool_idx = Len(current_response.tool_calls)
           /\ pc = "sync_follow" => pc' = "input"]_vars

\* a sync command given after a turn has written a draft and a chapter
\* memory and is about to make its second call
SyncCommandWroteFiles ==
    /\ proc = "agent"
    /\ pc = "sync_follow"
    /\ Len(history) = 2
    /\ Len(executed) = 2
    /\ DraftFile \in DOMAIN docs

\* C34: in the SyncRunner flow the record of its own session (an id ending
\* in _sync) holds the history as it is whenever the runner is about to call
\* the Completion Client, to execute a tool or to prompt, so every change of
\* its history has been saved by then; the flow starts from the sync system
\* prompt alone, and no step of it changes the record of another session.
SyncFlowSavesEveryChange ==
    /\ [](proc = "sync" =>
            /\ IsSyncId(session_id)
            /\ SessionFileName(session_id) \in DOMAIN sessions
            /\ sessions[SessionFileName(session_id)].json
                   = JsonDump(session_id, Stamp(clock), history)
            /\ Persisted = history)
    /\ [][/\ (proc = "none" /\ proc' = "sync") =>
                 history' = << SystemMsg(SyncPrompt(docs)) >>
          /\ (proc = "sync" \/ proc' = "sync") =>
                 \A f \in DOMAIN sessions :
                     /\ f \in DOMAIN sessions'
                     /\ (proc' = "sync" /\ f # SessionFileName(session_id'))
                            => sessions'[f] = sessions[f]
                     /\ (proc' # "sync" /\ f # SessionFileName(session_id))
                            => sessions'[f] = sessions[f]]_vars

\* a sync runner started beside the record of a conversation is about to
\* make its second call, the results of a tool round in its history
SyncRoundSavedBesideOtherRecord ==
    /\ proc = "sync"
    /\ pc = "srun_chat"
    /\ depth = 1
    /\ Cardinality(DOMAIN sessions) = 2
    /\ \E i \in 1..Len(history) : Role(history[i]) = "tool"

\* C35: in the sync flow a call of the Completion Client that fails ends
\* the turn only: whatever the call at srun_chat returns or raises, the
\* runner is still running afterwards, and a call that fails leaves it at
\* its prompt, where the next follow-up command is read.
SyncFailureAbortsTurnOnly ==
    [][(proc = "sync" /\ pc = "srun_chat") =>
           /\ proc' = "sync"
           /\ pc' \in { "srun_tools", "srun_input" }]_vars

WrittenChapterIsInSync ==
    (/\ proc = "sync"
     /\ pc = "srun_chat"
     /\ history = << SystemMsg(SyncPrompt(docs)) >>
     /\ DraftFile \in DOMAIN docs
     /\ ChapterMemoryPath(ChapterTitle) \in DOMAIN docs) =>
        /\ 1 \notin DraftNums(docs) \ MemoryNums(docs)
        /\ 1 \notin MemoryNums(docs) \ DraftNums(docs)
        /\ "Status: Consistent" \in Range(RunnerSyncParts(docs))

\* C38: the progress report and the sync check agree on the drafts: in the
\* prompt _build_sync_prompt has built for a workspace, the latest chapter
\* and the total of chapters that the report of get_writing_progress gives
\* are the maximum and the size of the set of draft chapter numbers the
\* sync check extracts from the same files.
ProgressAgreesWithSyncCheck ==
    pc = "agent_prompt" =>
        /\ ProgressCounts(docs).latest_chapter = MaxOr0(DraftNums(docs))
        /\ ProgressCounts(docs).total_chapters = Cardinality(DraftNums(docs))
        /\ Contains(messages[1].content,
                    "- **Latest Chapter**: Chapter " \o ToString(MaxOr0(DraftNums(docs)))
                        \o "\n- **Total Chapters Written**: "
                        \o ToString(Cardinality(DraftNums(docs))) \o "\n")

\* C39: construction over a sessions directory whose selected (latest)
\* record cannot be read or parsed succeeds: the controller is at its
\* prompt with an empty History and the session id generated for it, the
\* records are as they were, and the older record is not loaded instead.
UnreadableRecordStartsFresh ==
    [][(/\ proc = "none"
        /\ proc' = "agent"
        /\ DOMAIN sessions # {}
        /\ sessions[LatestFile(sessions)].json[1] # "obj") =>
           /\ pc' = "input"
           /\ history' = << >>
           /\ session_id' = Stamp(clock')
           /\ selected' = LatestFile(sessions)
           /\ sessions' = sessions]_vars

\* a controller constructed over a cut-off latest record and an older
\* readable one is at its prompt
StartedOverUnreadableRecord ==
    /\ proc = "agent"
    /\ pc = "input"
    /\ clock = 1
    /\ history = << >>
    /\ selected = SessionFileName(EarlierSessionId)
    /\ sessions[selected].json[1] = "bad"
    /\ SessionFileName("20231231_235959") \in DOMAIN sessions

\* ms holds the argument payload of a bulk-content call that has been
\* executed: a tool-call message with a write_file or memorize_chapter_event
\* call, and after it the tool message of that call
HoldsExecutedBulkPayload(ms) ==
    \E j \in 1..Len(ms) :
        /\ HasToolCalls(ms[j])
        /\ \E k \in 1..Len(ms[j].tool_calls) :
             /\ ms[j].tool_calls[k].function.name \in BulkTools
             /\ \E i \in (j + 1)..Len(ms) :
                  Role(ms[i]) = "tool" /\ ms[i].tool_call_id = ms[j].tool_calls[k].id

\* C40: no message list sent to the model holds the argument payload of a
\* write_file or memorize_chapter_event call that has already been
\* executed, in the follow-up calls of the same turn as in the windows built
\* in later turns.
ExecutedBulkPayloadIsNotResent ==
    /\ (proc = "agent" /\ pc \in { "chat_first", "chat_follow", "chat_forced",
                                   "chat_retry", "sync_chat", "sync_follow" }) =>
           ~HoldsExecutedBulkPayload(messages)
    /\ (proc = "sync" /\ pc = "srun_chat") => ~HoldsExecutedBulkPayload(history)
====
